---- MODULE Spec2Model ----
(***************************************************************************)
(* ConnectionManager (src/core/connection.ts) as a state machine.          *)
(*                                                                         *)
(* One step of the model is one run-to-completion turn of the JavaScript   *)
(* event loop: a call made by the user, a timer that fires, a promise of   *)
(* the transport that settles, or an event the transport emits, together   *)
(* with every synchronous handler and every promise continuation that the  *)
(* turn runs before the next timer or transport event can be delivered.    *)
(*                                                                         *)
(* The transport (@xmpp/client) is an external collaborator.  It is        *)
(* modelled by its interface only: start() and stop() return promises that *)
(* settle at some later turn, and the events online, offline and error are *)
(* emitted at turns of the transport's choosing.  A transport that has     *)
(* emitted error or offline, or whose start() has rejected, is closed and  *)
(* emits nothing more.  The configuration is a valid one.                  *)
(*                                                                         *)
(* There is no clock: a timer that is armed fires at some later step.      *)
(***************************************************************************)
EXTENDS Integers, Sequences, FiniteSets, TLC

\* Bounds of the model.
MaxTransports == 2      \* transport objects that are alive at the same time
MaxPending == 3         \* reconnect() calls waiting out their backoff at the same time
MaxStops == 2           \* disconnect() calls awaiting their stop() at the same time
MaxCalls == 2           \* sendStanza() calls, and sendIQ() calls, suspended at the same time
MaxBatch == 2           \* messages given to one markMultiple call
MaxInFlight == 2        \* messages the client holds at the same time: collected archive
                        \* items, and messages whose status lookup is in flight

\* DEFAULT_CONFIG of connection.ts.
MAX_RECONNECT_ATTEMPTS == 5
MAX_BACKOFF_TIME == 30000

Transports == 1..MaxTransports
NoTransport == 0

VARIABLES
    status,             \* this.status
    xmpp,               \* this.xmpp: a transport, or NoTransport for null
    connectionTimeout,  \* this.connectionTimeout: "none" (null), "armed", or "fired"
                        \* (the handle is still stored but its timer has run)
    reconnectAttempts,  \* this.reconnectAttempts
    reconnects,         \* number of reconnect() calls suspended in their backoff wait
    tr,                 \* the transports created so far and the connect() call of each
    backoffDisconnect,  \* history of disconnect() against the waiting reconnect() calls:
                        \* "called" when disconnect() was called while they waited and
                        \* still awaits stop(), "completed" when it has completed since
                        \* and they still wait, "none" otherwise
    effects,            \* what the manager did to its surroundings during the last step,
                        \* in order: the events it emits ("status:<state>",
                        \* "error:<cause>", "online", "offline") and the backoff timers
                        \* it armed ("backoff:<ms>")
    observed,           \* what a subscriber sees at each entry of effects, in order: the
                        \* entry, and the timer and the attempt counter at that moment
    failures,           \* history: steps in which the manager handled a failure since the
                        \* last online transition or completed disconnect(), counted up
                        \* to MAX_RECONNECT_ATTEMPTS; Uncounted in the specifications
                        \* that keep no such history
    thrown,             \* error the last user call failed with synchronously, or "none"
    sending,            \* number of sendStanza() calls suspended at await xmpp.send()
    asking,             \* number of sendIQ() calls suspended at await iqCaller.request()
    settled             \* how the sendStanza() or sendIQ() call that ended in the last step
                        \* ended: NotSettled, or what it returned or threw

VARIABLES
    messageCollections, \* MAMHandler.messageCollections: the messages collected for each
                        \* query id; <<>> stands for a query id the map does not hold
    stale,              \* history: for each query id, how many of the messages collected
                        \* for it arrived before the connection last left `online`;
                        \* NoStale in the specifications that keep no such history
    parsed,             \* what parseResult returned in the last step: NoResult for null
    events,             \* the events the client emitted during the last step, in order
    pendingResults,     \* the archive results whose Promise.all awaits status lookups
    pendingMessages,    \* the parsed messages whose status lookup is in flight, in the
                        \* order of delivery of their frames
    handled,            \* the branch of the stanza listener the last step ran: "none"
                        \* when the step delivered no stanza
    frame,              \* the stanza the last step delivered: NoFrame when it
                        \* delivered none
    raised,             \* whether the listener's turn of the last step ended with an
                        \* exception
    arrived,            \* history: per query id, the items of the stanzas delivered
                        \* since its last terminal, in the order of delivery
    constructorConnect  \* the connect() call the client's constructor makes: "pending"
                        \* until it resolves or rejects, then "settled"; "none" for a
                        \* manager with no client on top

VARIABLES
    call,               \* the call of the client the user made last: its name, whether it
                        \* is pending, resolved or rejected, what it returned or threw,
                        \* the stanzas it handed to the transport itself, and the answer
                        \* that settled it
    ops                 \* the per-message operations of the last markMultiple call, in
                        \* the order of its messages

VARIABLES
    given,              \* the argument of the last constructor or builder call
    made,               \* what that call returned or threw
    upload              \* the sendAttachment call made last: its file and config, the
                        \* await it is at, the frames and the HTTP requests it has
                        \* issued, what went wrong, and how it ended

\* The variables of the sending calls.
sendVars == <<sending, asking, settled>>

\* The variables of the client: the dispatcher and the archive handler.
clientVars == <<messageCollections, stale, parsed, events, pendingResults,
                pendingMessages, handled, frame, raised, arrived, constructorConnect>>

\* The variables of the calls of the client's features.
featureVars == <<call, ops, given, made, upload>>

vars == <<status, xmpp, connectionTimeout, reconnectAttempts, reconnects, tr,
          backoffDisconnect, effects, observed, failures, thrown, sendVars,
          clientVars, featureVars>>

Min(a, b) == IF a < b THEN a ELSE b

\* The query ids of the archive queries in progress.
QueryIds == {"qa", "qb"}

\* The ids of the archived messages.
MsgIds == {"m1", "m2"}

\* parseResult returned null.
NoResult == [queryId |-> "", complete |-> FALSE, messages |-> <<>>, null |-> TRUE]

\* No sendStanza() or sendIQ() call ended.
NoFrame ==
    [name |-> "", mam |-> "none", queryid |-> "", item |-> "", id |-> "",
     complete |-> "", receipt |-> "none"]

\* No error, and no answer.
\* No constructor or builder has been called.
Nothing == [state |-> "none"]

\* No sendAttachment call has been made.
NoUpload == [state |-> "none", stage |-> "none"]

NoError == [name |-> "", condition |-> "", message |-> ""]

\* No message status.
NoStatus == [delivered |-> FALSE, read |-> FALSE, null |-> TRUE]

\* No call was made.
NoCall ==
    [name |-> "none", state |-> "none", error |-> NoError, value |-> NoStatus,
     wire |-> <<>>, answer |-> NoError, element |-> [delivered |-> "", read |-> ""]]

NotSettled == [kind |-> "none", condition |-> "", message |-> ""]

\* A transport slot that holds no transport object.
NoneTransport ==
    [st |-> "none", starting |-> FALSE, byReconnect |-> FALSE, listeners |-> FALSE,
     waitUser |-> 0, waitRec |-> 0, stops |-> 0]

\* The manager's fields as one value, so that the handlers compose as in the code.
Mgr ==
    [status |-> status, xmpp |-> xmpp, connectionTimeout |-> connectionTimeout,
     reconnectAttempts |-> reconnectAttempts, reconnects |-> reconnects, tr |-> tr,
     backoffDisconnect |-> backoffDisconnect, effects |-> <<>>,
     observed |-> <<>>]

\* A transport that can no longer act on the manager: its start() has settled, no
\* disconnect() awaits its stop(), and it is closed or has no listener left.
Spent(s, t) ==
    /\ s.tr[t].st # "none"
    /\ ~s.tr[t].starting
    /\ s.tr[t].stops = 0
    /\ \/ s.tr[t].st = "closed"
       \/ ~s.tr[t].listeners /\ s.tr[t].waitUser = 0 /\ s.tr[t].waitRec = 0

\* A spent transport that this.xmpp does not hold.
Inert(s, t) == Spent(s, t) /\ t # s.xmpp

\* Transports that can no longer act are forgotten.  The transports that remain keep
\* their order of creation and move to the lowest slots: a slot number is only the
\* handle of a transport object in the model and carries no other meaning.
Collect(s) ==
    LET kept == {t \in Transports : s.tr[t].st # "none" /\ ~Inert(s, t)}
        rank(t) == Cardinality({u \in kept : u <= t})
        at(k) == CHOOSE t \in kept : rank(t) = k
        handle(t) == IF t = NoTransport THEN NoTransport ELSE rank(t)
    IN  [s EXCEPT !.tr = [k \in Transports |->
                            IF k <= Cardinality(kept) THEN s.tr[at(k)] ELSE NoneTransport],
                  !.xmpp = handle(s.xmpp)]

\* A slot for a new transport: an empty one, or the one of a spent transport that
\* this.xmpp holds (the assignment of the new transport drops the last reference).
Free(s, t) == s.tr[t].st = "none" \/ Spent(s, t)

\* createXMPPClient() always makes a transport; the model keeps at most MaxTransports
\* of them able to act at once, and a connect() beyond that is not followed.
HasFree(s) == \E t \in Transports : Free(s, t)

FreeSlot(s) ==
    CHOOSE t \in Transports : Free(s, t) /\ \A u \in Transports : Free(s, u) => t <= u

\* The error events handleConnectionError emits: one per call of it.
ErrorEffects ==
    {"error:TIMEOUT", "error:transport", "error:stop",
     "error:Connection already in progress", "error:Already connected"}

\* The backoff timers reconnect() can arm, whatever the delay.
BackoffEffects == {"backoff:" \o ToString(1000 * k) : k \in 1..32}

Count(seq, S) == Len(SelectSeq(seq, LAMBDA e : e \in S))

\* The backoff timers armed during a step, in order.
BackoffsOf(seq) == SelectSeq(seq, LAMBDA e : e \in BackoffEffects)

\* The failure history of a specification that keeps none.
Uncounted == 0 - 1

\* The history of stale messages of a specification that keeps none.
NoStale == [q \in QueryIds |-> Uncounted]

\* The history of stale messages when the status leaves `online` with the
\* collections cs.
Stale(old, cs) == IF old = NoStale THEN old ELSE [q \in QueryIds |-> Len(cs[q])]

\* The failure history after a step with the effects effs: handleOnline and cleanup()
\* (the only one to end a step on the status event of `disconnected`) start it
\* afresh, a step that ran handleConnectionError adds one.
Failures(n, effs) ==
    IF n = Uncounted \/ effs = <<>> THEN n
    ELSE IF Count(effs, {"online"}) > 0 \/ effs[Len(effs)] = "status:disconnected" THEN 0
    ELSE IF Count(effs, ErrorEffects) > 0 THEN Min(n + 1, MAX_RECONNECT_ATTEMPTS)
    ELSE n

\* The step ends with the manager's fields as in s.
BecomesManager(s) ==
    /\ s.reconnects <= MaxPending
    /\ LET c == Collect(s)
       IN  /\ status' = c.status
           /\ xmpp' = c.xmpp
           /\ connectionTimeout' = c.connectionTimeout
           /\ reconnectAttempts' = c.reconnectAttempts
           /\ reconnects' = c.reconnects
           /\ tr' = c.tr
           /\ backoffDisconnect' = c.backoffDisconnect
           /\ effects' = c.effects
           /\ observed' = c.observed
           /\ failures' = Failures(failures, c.effects)

\* The step ends with the manager's fields as in s, and touches nothing else.
Becomes(s) ==
    /\ BecomesManager(s)
    /\ UNCHANGED <<sendVars, clientVars, featureVars>>

\* An event is emitted, or a timer armed, and noted.
emit(s, e) ==
    [s EXCEPT !.effects = Append(@, e),
              !.observed = Append(@, [event |-> e, timeout |-> s.connectionTimeout,
                                      attempts |-> s.reconnectAttempts])]

setStatus(s, st) == emit([s EXCEPT !.status = st], "status:" \o st)

clearConnectionTimeout(s) == [s EXCEPT !.connectionTimeout = "none"]

setupConnectionTimeout(s) ==
    [clearConnectionTimeout(s) EXCEPT !.connectionTimeout = "armed"]

shouldAttemptReconnect(s) ==
    /\ s.reconnectAttempts < MAX_RECONNECT_ATTEMPTS
    /\ s.status # "disconnected"

backoffTime(attempts) == Min(1000 * 2^attempts, MAX_BACKOFF_TIME)

\* reconnect() up to its first await: the delay is computed from the counter as it is
\* when reconnect() is entered, and the call suspends on the backoff timer.  The model
\* has no clock: a suspended reconnect() may resume at any later step, and all of
\* them resume alike, so the state keeps their number and the step that arms a
\* timer shows its delay.
reconnect(s) ==
    emit([s EXCEPT !.reconnects = @ + 1, !.backoffDisconnect = "none"],
         "backoff:" \o ToString(backoffTime(s.reconnectAttempts)))

\* handleConnectionError with the timer cleared only after the events.
handleConnectionErrorClearsLate(s, err) ==
    LET s1 == clearConnectionTimeout(emit(setStatus(s, "error"), "error:" \o err))
    IN  IF shouldAttemptReconnect(s1)
        THEN reconnect([s1 EXCEPT !.reconnectAttempts = @ + 1])
        ELSE s1

handleConnectionError(s, err) ==
    LET s1 == emit(setStatus(clearConnectionTimeout(s), "error"), "error:" \o err)
    IN  IF shouldAttemptReconnect(s1)
        THEN reconnect([s1 EXCEPT !.reconnectAttempts = @ + 1])
        ELSE s1

\* Mutant: the connect timeout is left armed.
handleOnlineKeepsTimeout(s) ==
    emit(setStatus([s EXCEPT !.reconnectAttempts = 0], "online"), "online")

handleOnline(s) ==
    emit(setStatus([clearConnectionTimeout(s) EXCEPT !.reconnectAttempts = 0],
                   "online"),
         "online")

handleOffline(s) == emit(setStatus(s, "disconnected"), "offline")

\* handleConnectionError run k times in a row.
RECURSIVE handleConnectionErrors(_, _, _)
handleConnectionErrors(s, err, k) ==
    IF k = 0 THEN s
    ELSE handleConnectionErrors(handleConnectionError(s, err), err, k - 1)

\* The once-listeners of waitForConnection that are registered on transport t are
\* dropped without having run: the connect() calls that wait there stay pending.
DropWaiters(trs, t) == [trs EXCEPT ![t].waitUser = 0, ![t].waitRec = 0]

\* Mutant: the attempt counter is not reset.
cleanupKeepsAttempts(s) ==
    LET trs == IF s.xmpp # NoTransport
               THEN [DropWaiters(s.tr, s.xmpp) EXCEPT ![s.xmpp].listeners = FALSE]
               ELSE s.tr
        s1 == [s EXCEPT !.tr = trs, !.xmpp = NoTransport]
    IN  setStatus(clearConnectionTimeout(s1), "disconnected")

cleanup(s) ==
    LET trs == IF s.xmpp # NoTransport
               THEN [DropWaiters(s.tr, s.xmpp) EXCEPT ![s.xmpp].listeners = FALSE]
               ELSE s.tr
        s1 == [s EXCEPT !.tr = trs, !.xmpp = NoTransport, !.reconnectAttempts = 0]
    IN  setStatus(clearConnectionTimeout(s1), "disconnected")

\* establishConnection() up to its first await: createXMPPClient, setupEventHandlers
\* and the call of start().
establishConnection(s, byReconnect) ==
    LET t == FreeSlot(s)
    IN  [s EXCEPT !.xmpp = t,
                  !.tr[t] = [st |-> "starting", starting |-> TRUE,
                             byReconnect |-> byReconnect, listeners |-> TRUE,
                             waitUser |-> 0, waitRec |-> 0, stops |-> 0]]

\* The error connect() throws before it changes anything, or "none".
connectGuard(s) ==
    IF s.status = "connecting" THEN "Connection already in progress"
    ELSE IF s.status = "online" THEN "Already connected"
    ELSE "none"

\* Mutant: the status is set before the guards are tested.
connectSetsStatusFirst(s, byReconnect) ==
    IF connectGuard(s) # "none" THEN setStatus(s, "connecting")
    ELSE establishConnection(setupConnectionTimeout(setStatus(s, "connecting")),
                             byReconnect)

\* connect() up to its first await.
connect(s, byReconnect) ==
    IF connectGuard(s) # "none" THEN s
    ELSE establishConnection(setupConnectionTimeout(setStatus(s, "connecting")),
                             byReconnect)

InitRest ==
    /\ connectionTimeout = "none"
    /\ reconnectAttempts = 0
    /\ reconnects = 0
    /\ tr = [t \in Transports |-> NoneTransport]
    /\ backoffDisconnect = "none"
    /\ effects = <<>>
    /\ observed = <<>>
    /\ thrown = "none"
    /\ sending = 0
    /\ asking = 0
    /\ settled = NotSettled
    /\ messageCollections = [q \in QueryIds |-> <<>>]
    /\ parsed = NoResult
    /\ pendingResults = <<>>
    /\ pendingMessages = <<>>
    /\ handled = "none"
    /\ frame = NoFrame
    /\ raised = FALSE
    /\ arrived = [q \in QueryIds |-> <<>>]
    /\ given = Nothing
    /\ made = Nothing
    /\ upload = NoUpload
    /\ call = NoCall
    /\ ops = <<>>

\* new ConnectionManager(config): no transport, no client on top of the manager.
InitOther ==
    /\ status = "disconnected"
    /\ xmpp = NoTransport
    /\ events = <<>>
    /\ constructorConnect = "none"
    /\ InitRest

\* The state after construction; the histories of failures and of stale messages
\* are not kept.
Init == InitOther /\ failures = Uncounted /\ stale = NoStale

\* The state after construction, with the failure history kept.
InitCounted == InitOther /\ failures = 0 /\ stale = NoStale

\* The user calls connect().
UserConnect ==
    /\ connectGuard(Mgr) # "none" \/ HasFree(Mgr)
    /\ Becomes(connect([Mgr EXCEPT !.backoffDisconnect = "none"], FALSE))
    /\ thrown' = connectGuard(Mgr)

\* The timer of setupConnectionTimeout fires.
TimeoutFires ==
    /\ connectionTimeout = "armed"
    /\ IF status = "connecting"
       THEN Becomes(handleConnectionError(Mgr, "TIMEOUT"))
       ELSE Becomes([Mgr EXCEPT !.connectionTimeout = "fired"])
    /\ thrown' = "none"

\* reconnect() after its backoff wait: connect(), and handleConnectionError when
\* connect() throws at once.
resumeReconnect(s) ==
    IF connectGuard(s) # "none"
    THEN handleConnectionError(s, connectGuard(s))
    ELSE connect(s, TRUE)

\* The backoff timer of a waiting reconnect() fires.
BackoffElapses ==
    /\ reconnects > 0
    /\ LET s == [Mgr EXCEPT !.reconnects = @ - 1, !.backoffDisconnect = "none"]
       IN  /\ connectGuard(s) # "none" \/ HasFree(s)
           /\ Becomes(resumeReconnect(s))
    /\ thrown' = "none"

\* handleConnectionError calls made when a connect() call rejects: one in the catch
\* of connect(), one more in the catch of reconnect() when reconnect() made the call.
CatchCount(byReconnect) == IF byReconnect THEN 2 ELSE 1

\* handleConnectionError calls made when the connect() calls that wait on t reject.
WaiterCatches(t) == tr[t].waitUser * CatchCount(FALSE) + tr[t].waitRec * CatchCount(TRUE)

\* Transport t emits online.
TransportOnline(t) ==
    /\ tr[t].st = "starting"
    /\ LET s1 == IF tr[t].listeners THEN handleOnline(Mgr) ELSE Mgr
       IN  Becomes([s1 EXCEPT !.tr = [DropWaiters(s1.tr, t) EXCEPT ![t].st = "online"]])
    /\ thrown' = "none"

\* Transport t emits error: the manager's listener runs, then the onError listeners of
\* waitForConnection reject their connect() calls, whose catch blocks run.
TransportError(t) ==
    /\ tr[t].st \in {"starting", "online"}
    /\ LET s1 == IF tr[t].listeners THEN handleConnectionError(Mgr, "transport") ELSE Mgr
           s2 == handleConnectionErrors(s1, "transport", WaiterCatches(t))
       IN  Becomes([s2 EXCEPT !.tr = [DropWaiters(s2.tr, t) EXCEPT ![t].st = "closed"]])
    /\ thrown' = "none"

\* Transport t emits offline (the stream is closed).
TransportOffline(t) ==
    /\ tr[t].st \in {"starting", "online"}
    /\ LET s1 == IF tr[t].listeners THEN handleOffline(Mgr) ELSE Mgr
       IN  Becomes([s1 EXCEPT !.tr = [DropWaiters(s1.tr, t) EXCEPT ![t].st = "closed"]])
    /\ thrown' = "none"

\* waitForConnection(): the once-listeners are registered on this.xmpp, if there is
\* one (a closed transport emits nothing more, so listeners on it never run).
waitForConnection(s, byReconnect) ==
    IF s.xmpp = NoTransport \/ s.tr[s.xmpp].st = "closed" THEN s
    ELSE IF byReconnect THEN [s EXCEPT !.tr[s.xmpp].waitRec = @ + 1]
    ELSE [s EXCEPT !.tr[s.xmpp].waitUser = @ + 1]

\* start() of transport t resolves: establishConnection goes on to waitForConnection,
\* which registers its once-listeners on whatever this.xmpp is at that moment.
StartResolves(t) ==
    /\ tr[t].starting
    /\ tr[t].st \in {"starting", "online"}
    /\ LET s1 == [Mgr EXCEPT !.tr[t].starting = FALSE, !.tr[t].byReconnect = FALSE]
       IN  Becomes(waitForConnection(s1, tr[t].byReconnect))
    /\ thrown' = "none"

\* start() of transport t rejects: the catch of connect() runs, and the catch of
\* reconnect() after it when reconnect() made the call.
StartRejects(t) ==
    /\ tr[t].starting
    /\ tr[t].st \in {"starting", "closed"}
    /\ LET s1 == handleConnectionErrors(Mgr, "transport", CatchCount(tr[t].byReconnect))
       IN  Becomes([s1 EXCEPT !.tr = [DropWaiters(s1.tr, t) EXCEPT
                                         ![t].st = "closed", ![t].starting = FALSE,
                                         ![t].byReconnect = FALSE]])
    /\ thrown' = "none"

\* The disconnect() calls that await the stop() of a transport.
RECURSIVE Stops(_, _)
Stops(trs, n) == IF n = 0 THEN 0 ELSE trs[n].stops + Stops(trs, n - 1)

\* The user calls disconnect(): nothing happens without a transport, otherwise stop()
\* is called on this.xmpp and disconnect() suspends, whether or not an earlier
\* disconnect() is still suspended.
UserDisconnect ==
    /\ IF xmpp = NoTransport
       THEN Becomes(Mgr)
       ELSE /\ Stops(tr, MaxTransports) < MaxStops
            /\ Becomes([Mgr EXCEPT !.tr[xmpp].stops = @ + 1,
                                   !.backoffDisconnect =
                                       IF reconnects > 0 THEN "called" ELSE "none"])
    /\ thrown' = "none"

\* A stop() of transport t resolves (the transport emits offline first if it was
\* still open) and the disconnect() that called it goes on to cleanup(), which acts
\* on whatever this.xmpp holds by then.
StopResolves(t) ==
    /\ tr[t].stops > 0
    /\ LET open == tr[t].st \in {"starting", "online"}
           s1 == IF open /\ tr[t].listeners THEN handleOffline(Mgr) ELSE Mgr
           s2 == IF open
                 THEN [s1 EXCEPT !.tr = [DropWaiters(s1.tr, t) EXCEPT ![t].st = "closed"]]
                 ELSE s1
           s3 == [s2 EXCEPT !.tr[t].stops = @ - 1]
       IN  Becomes([cleanup(s3) EXCEPT !.backoffDisconnect =
                                           IF @ = "called" THEN "completed" ELSE "none"])
    /\ thrown' = "none"

\* A stop() of transport t rejects: the catch of the disconnect() that called it runs
\* and that disconnect() fails.
StopRejects(t) ==
    /\ tr[t].stops > 0
    /\ LET s1 == [Mgr EXCEPT !.tr[t].stops = @ - 1]
       IN  Becomes([handleConnectionError(s1, "stop") EXCEPT
                        !.backoffDisconnect = "none"])
    /\ thrown' = "stop"

Next ==
    \/ UserConnect
    \/ UserDisconnect
    \/ \E t \in Transports : StopResolves(t)
    \/ \E t \in Transports : StopRejects(t)
    \/ TimeoutFires
    \/ BackoffElapses
    \/ \E t \in Transports : TransportOnline(t)
    \/ \E t \in Transports : TransportError(t)
    \/ \E t \in Transports : TransportOffline(t)
    \/ \E t \in Transports : StartResolves(t)
    \/ \E t \in Transports : StartRejects(t)

Spec == Init /\ [][Next]_vars

\* The steps of a manager whose user never calls disconnect().
NextFailures ==
    \/ UserConnect
    \/ TimeoutFires
    \/ BackoffElapses
    \/ \E t \in Transports : TransportOnline(t)
    \/ \E t \in Transports : TransportError(t)
    \/ \E t \in Transports : TransportOffline(t)
    \/ \E t \in Transports : StartResolves(t)
    \/ \E t \in Transports : StartRejects(t)

\* Those steps, with the failure history kept.
SpecFailures == InitCounted /\ [][NextFailures]_vars

(***************************************************************************)
(* C1..C10: the connection lifecycle.                                      *)
(***************************************************************************)

\* A connect() call that entered `connecting` is pending with nothing under way that
\* would settle it: it awaits the start() of a transport that has signalled nothing
\* yet, or it waits in waitForConnection.  (A start() whose transport has signalled
\* online or error settles within the turn of the signal and is left out.)
ConnectPending ==
    \E t \in Transports :
        \/ tr[t].starting /\ tr[t].st = "starting"
        \/ tr[t].waitUser > 0
        \/ tr[t].waitRec > 0

\* C1: when disconnect() was called and has completed while a reconnect waited out
\* its backoff, the end of that wait starts no connect attempt and creates no
\* transport, and the state stays as it is.
C1_DisconnectCancelsReconnect ==
    [][(BackoffElapses /\ backoffDisconnect = "completed")
          => (status' = status /\ xmpp' = xmpp /\ tr' = tr /\ effects' = <<>>)]_vars

\* C2: the k-th backoff timer armed in a step has the delay min(1000 * 2^n, 30000),
\* n being the attempt counter before its increment.
C2_DelayFromCounterBeforeIncrement ==
    [][\A k \in 1..Len(BackoffsOf(effects')) :
          BackoffsOf(effects')[k] =
              "backoff:" \o ToString(Min(1000 * 2^(reconnectAttempts + k - 1), 30000))]_vars

\* C3: the connect timeout that fires in `connecting` with the counter at 0
\* sets `error`, emits the timeout error and arms exactly one backoff of 1000 ms.
C3_TimeoutSchedules1000 ==
    [][(TimeoutFires /\ status = "connecting" /\ reconnectAttempts = 0)
          => /\ status' = "error"
             /\ effects' = <<"status:error", "error:TIMEOUT", "backoff:1000">>
             /\ reconnects' = reconnects + 1]_vars

\* The connect attempt in progress is seen to fail for the first time in this step:
\* the state is `connecting`, its timeout is still armed and its transport has
\* signalled nothing, and the timeout fires, the transport emits error or its
\* start() rejects.
AttemptFails ==
    /\ status = "connecting"
    /\ connectionTimeout = "armed"
    /\ xmpp # NoTransport
    /\ tr[xmpp].st = "starting"
    /\ TimeoutFires \/ TransportError(xmpp) \/ StartRejects(xmpp)

\* C4: the attempt counter never exceeds 5; a connect attempt that fails leaves the
\* state `error`, and a reconnect is scheduled for it when fewer than 5 failures
\* came before it since the last online transition or disconnect(), and none when 5
\* did.
C4_FirstFiveFailuresReconnect ==
    /\ [](reconnectAttempts \in 0..5)
    /\ [][AttemptFails
              => /\ status' = "error"
                 /\ IF failures < 5
                    THEN Count(effects', BackoffEffects) >= 1
                    ELSE Count(effects', BackoffEffects) = 0]_vars

\* C5: at most one reconnect waits out its backoff at any time, and no step arms
\* more than one backoff or advances the attempt counter by more than one.
C5_OneReconnectPerFailure ==
    /\ [](reconnects <= 1)
    /\ [][/\ Count(effects', BackoffEffects) <= 1
          /\ reconnectAttempts' <= reconnectAttempts + 1]_vars

\* C6: a backoff wait that ends while the state is `online` does nothing, and the
\* state leaves `online` only by an offline or error signal of a transport (its
\* rejected start() included) or by disconnect().
C6_OnlineCancelsBackoff ==
    [][/\ (status = "online" /\ BackoffElapses)
              => (status' = "online" /\ effects' = <<>>)
       /\ (status = "online" /\ status' # "online")
              => \/ \E t \in Transports :
                        TransportOffline(t) \/ TransportError(t) \/ StartRejects(t)
                 \/ \E t \in Transports : StopResolves(t) \/ StopRejects(t)]_vars

\* C7: connect() called in `connecting` or `online` fails with the matching error and
\* changes nothing: no field of the manager, no transport, no event.
C7_ConnectWhileBusyMutatesNothing ==
    [][(UserConnect /\ status \in {"connecting", "online"})
          => /\ thrown' = IF status = "connecting"
                          THEN "Connection already in progress"
                          ELSE "Already connected"
             /\ effects' = <<>>
             /\ UNCHANGED <<status, xmpp, connectionTimeout, reconnectAttempts,
                            reconnects, tr>>]_vars

\* C7 witness: connect() has just been refused while online.
C7_Witness == thrown = "Already connected" /\ status = "online" /\ effects = <<>>

\* C8: a connect() call that entered `connecting` is pending only while the state is
\* `connecting`.
C8_ConnectSettlesOnLeavingConnecting == ConnectPending => status = "connecting"

\* C9 as claimed: whenever a disconnect() that found a transport handle completes, the
\* state is `disconnected`, the handle cleared, the counter 0 and no timeout armed.
C9_DisconnectAlwaysSucceeds ==
    [][(\E t \in Transports : StopResolves(t) \/ StopRejects(t))
          => /\ status' = "disconnected"
             /\ xmpp' = NoTransport
             /\ reconnectAttempts' = 0
             /\ connectionTimeout' = "none"]_vars

\* C9 as amended: disconnect() without a transport handle changes nothing and calls no
\* stop(); with a handle it calls stop() on it, and when stop() resolves the state is
\* `disconnected`, the handle cleared, the counter 0 and no timeout armed; when
\* stop() rejects, disconnect() fails and the state is `error`.
C9_DisconnectWhenStopResolves ==
    [][/\ (UserDisconnect /\ xmpp = NoTransport)
              => /\ effects' = <<>>
                 /\ UNCHANGED <<status, xmpp, connectionTimeout, reconnectAttempts,
                                reconnects, tr>>
       /\ (UserDisconnect /\ xmpp # NoTransport)
              => /\ tr'[xmpp].stops = tr[xmpp].stops + 1
                 /\ UNCHANGED <<status, xmpp, connectionTimeout, reconnectAttempts>>
       /\ (\E t \in Transports : StopResolves(t))
              => /\ status' = "disconnected"
                 /\ xmpp' = NoTransport
                 /\ reconnectAttempts' = 0
                 /\ connectionTimeout' = "none"
                 /\ effects'[Len(effects')] = "status:disconnected"
       /\ (\E t \in Transports : StopRejects(t))
              => /\ status' = "error"
                 /\ thrown' = "stop"]_vars

\* C9 witness: disconnect() has completed after failures had been counted: cleanup()
\* has just run with a reconnect still waiting.
C9_Witness ==
    /\ status = "disconnected"
    /\ xmpp = NoTransport
    /\ reconnectAttempts = 0
    /\ reconnects > 0
    /\ effects # <<>>
    /\ effects[Len(effects)] = "status:disconnected"

\* C10: the online signal of a transport the manager listens to, received in
\* `connecting`, cancels the connect timeout, resets the counter, sets `online` and
\* emits the status event; no connect timeout is armed while the state is `online`,
\* so the cancelled one cannot fire.
C10_OnlineCancelsTimeout ==
    /\ [](status = "online" => connectionTimeout = "none")
    /\ [][\A t \in Transports :
            (TransportOnline(t) /\ tr[t].listeners /\ status = "connecting")
                => /\ status' = "online"
                   /\ connectionTimeout' = "none"
                   /\ reconnectAttempts' = 0
                   /\ effects' = <<"status:online", "online">>]_vars

\* C10 witness: the manager has just gone online after counted failures.
C10_Witness ==
    /\ status = "online"
    /\ effects = <<"status:online", "online">>
    /\ reconnects > 0

(***************************************************************************)
(* Sending: sendStanza and sendIQ.                                         *)
(*                                                                         *)
(* Both read the status and the transport handle once, when they are       *)
(* called.  A caller may find the manager in any lifecycle state (calls     *)
(* made from a listener of the status event included), so in this          *)
(* specification the lifecycle is an environment that moves the status and *)
(* the handle freely between the steps of the sending calls.               *)
(***************************************************************************)

\* The states setStatus is called with.
ConnectionStates == {"disconnected", "connecting", "online", "error"}

\* The ids an iq stanza is given to sendIQ with; "" is a stanza without an id.
IqIds == {"", "q1"}

\* The protocol conditions of the errors the server answers a query with.
Conditions == {"item-not-found", "forbidden"}

\* The messages of the failures of the transport that carry no condition.
TransportFailures == {"timeout"}

\* The fields of the manager at the end of a step of a sending call.
BecomesSend(s) ==
    /\ status' = s.status
    /\ xmpp' = s.xmpp
    /\ connectionTimeout' = s.connectionTimeout
    /\ reconnectAttempts' = s.reconnectAttempts
    /\ reconnects' = s.reconnects
    /\ effects' = s.effects
    /\ observed' = s.observed
    /\ UNCHANGED <<tr, backoffDisconnect, failures, thrown, clientVars,
                   featureVars>>

\* The lifecycle moves on: the status and the handle become any pair.
ConnectionMoves ==
    /\ \E st \in ConnectionStates, h \in Transports \cup {NoTransport} :
           /\ <<st, h>> # <<status, xmpp>>
           /\ BecomesSend([Mgr EXCEPT !.status = st, !.xmpp = h])
    /\ settled' = NotSettled
    /\ UNCHANGED <<sending, asking>>

isConnected(s) == s.status = "online" /\ s.xmpp # NoTransport

\* The call fails with an Error of the given message.
Rejected(msg) == [kind |-> "rejected", condition |-> "", message |-> msg]

\* The call fails with the structured error of the server.
RejectedWith(cond) == [kind |-> "rejected", condition |-> cond, message |-> cond]

Resolved == [kind |-> "resolved", condition |-> "", message |-> ""]

\* Mutant: only the transport handle is tested.
sendAllowedHandleOnly(s) == s.xmpp # NoTransport

\* The guard of sendIQ, which is also isConnected(), the guard of sendStanza.
sendAllowed(s) == s.xmpp # NoTransport /\ s.status = "online"

\* The user calls sendStanza(): the guard, then the stanza is handed to the transport
\* and the call suspends.
UserSendStanza ==
    /\ IF ~sendAllowed(Mgr)
       THEN /\ BecomesSend(Mgr)
            /\ settled' = Rejected("Not connected to server")
            /\ UNCHANGED <<sending, asking>>
       ELSE /\ sending < MaxCalls
            /\ BecomesSend(emit(Mgr, "send:stanza"))
            /\ sending' = sending + 1
            /\ settled' = NotSettled
            /\ UNCHANGED asking

\* xmpp.send() resolves: sendStanza emits stanza:sent and returns.
SendResolves ==
    /\ sending > 0
    /\ BecomesSend(emit(Mgr, "stanza:sent"))
    /\ sending' = sending - 1
    /\ settled' = Resolved
    /\ UNCHANGED asking

\* xmpp.send() rejects: sendStanza fails with the error of the transport.
SendRejects ==
    /\ sending > 0
    /\ \E msg \in TransportFailures :
           /\ BecomesSend(Mgr)
           /\ settled' = Rejected(msg)
    /\ sending' = sending - 1
    /\ UNCHANGED asking

\* The id of the stanza sendIQ hands over: a generated one when it has none.
iqId(id) == IF id = "" THEN "generated" ELSE id

\* The user calls sendIQ() with an iq stanza of the given id: the guard, then the
\* stanza is handed to iqCaller.request() and the call suspends.
UserSendIQ(id) ==
    /\ IF ~sendAllowed(Mgr)
       THEN /\ BecomesSend(Mgr)
            /\ settled' = Rejected("Not connected to server")
            /\ UNCHANGED <<sending, asking>>
       ELSE /\ asking < MaxCalls
            /\ BecomesSend(emit(Mgr, "request:" \o iqId(id)))
            /\ asking' = asking + 1
            /\ settled' = NotSettled
            /\ UNCHANGED sending

\* Mutant: a failed query is handled as a failure of the connection.
sendIQCatchReconnects(s, err) == handleConnectionError(s, "transport")

\* The catch of sendIQ leaves the manager alone.
sendIQCatch(s, err) == s

\* The error sendIQ throws for the error err of iqCaller.request().
sendIQError(err) ==
    IF err.condition # "" THEN err
    ELSE Rejected("Failed to send IQ: " \o err.message)

\* iqCaller.request() resolves: sendIQ returns the response.
IQResponds ==
    /\ asking > 0
    /\ BecomesSend(Mgr)
    /\ asking' = asking - 1
    /\ settled' = Resolved
    /\ UNCHANGED sending

\* iqCaller.request() rejects with err: the catch of sendIQ.
IQRejects(err) ==
    /\ asking > 0
    /\ BecomesSend(sendIQCatch(Mgr, err))
    /\ asking' = asking - 1
    /\ settled' = sendIQError(err)
    /\ UNCHANGED sending

\* The server answers the query with a protocol error.
IQFailsProtocol == \E c \in Conditions : IQRejects(RejectedWith(c))

\* The transport fails the query (time-out, closed stream).
IQFailsTransport == \E m \in TransportFailures : IQRejects(Rejected(m))

NextSend ==
    \/ ConnectionMoves
    \/ UserSendStanza
    \/ SendResolves
    \/ SendRejects
    \/ \E id \in IqIds : UserSendIQ(id)
    \/ IQResponds
    \/ IQFailsProtocol
    \/ IQFailsTransport

SpecSend == Init /\ [][NextSend]_vars

\* What a step hands to the transport.
SendEffects == {"send:stanza", "request:generated", "request:q1"}

\* C11: a step hands a frame to the transport only when the state is `online`; a
\* sendStanza or sendIQ call made in any other state fails with 'Not connected to
\* server', hands over nothing and emits nothing, and leaves the calls in flight as
\* they are.
C11_SendOnlyWhenOnline ==
    [][/\ Count(effects', SendEffects) > 0 => status = "online"
       /\ ((UserSendStanza \/ \E id \in IqIds : UserSendIQ(id)) /\ status # "online")
              => /\ settled' = Rejected("Not connected to server")
                 /\ effects' = <<>>
                 /\ UNCHANGED <<sending, asking>>]_vars

\* C11 witness: a call made while connecting, with a transport handle, has just failed.
C11_Witness ==
    /\ status = "connecting"
    /\ xmpp # NoTransport
    /\ settled = Rejected("Not connected to server")
    /\ effects = <<>>

\* C12: when a query fails, the caller gets the error of the server as it is if it
\* carries a condition and an error 'Failed to send IQ: <cause>' otherwise; the
\* status, the attempt counter, the handle and the waiting reconnects are unchanged
\* and nothing is emitted.
C12_FailedQueryLeavesConnection ==
    [][/\ \A c \in Conditions :
              IQRejects(RejectedWith(c)) => settled' = RejectedWith(c)
       /\ \A m \in TransportFailures :
              IQRejects(Rejected(m))
                  => settled' = [kind |-> "rejected", condition |-> "",
                                 message |-> "Failed to send IQ: " \o m]
       /\ (IQFailsProtocol \/ IQFailsTransport)
              => /\ effects' = <<>>
                 /\ UNCHANGED <<status, reconnectAttempts, xmpp, reconnects,
                                connectionTimeout>>]_vars

\* C12 witness: a query has just failed with the error of the server while online.
C12_Witness ==
    /\ settled = RejectedWith("item-not-found")
    /\ status = "online"
    /\ xmpp # NoTransport

(***************************************************************************)
(* The client: the dispatcher of inbound stanzas (client.ts) and the       *)
(* archive handler (MAMHandler).                                           *)
(*                                                                         *)
(* A stanza is modelled by what the classification and the parsers read:   *)
(* its name, its archive child (result, fin, or both), the queryid and the *)
(* forwarded message of a result child, its id, the complete attribute of  *)
(* a fin child, and its receipt child.  The status lookups the handlers    *)
(* start are calls of sendIQ: they fail at once when sendIQ refuses them   *)
(* and settle at a later step otherwise.                                   *)
(***************************************************************************)

\* The stanzas the transport may deliver.  "foreign" is a received or displayed child
\* outside the receipts namespace.  Fields nothing reads are left empty.
Stanza(name, mam, queryid, item, id, complete, receipt) ==
    [name |-> name, mam |-> mam, queryid |-> queryid, item |-> item, id |-> id,
     complete |-> complete, receipt |-> receipt]

\* Presence stanzas, plain and with the markers of the other kinds.
Presences ==
    {Stanza("presence", "none", "", "", "", "", "none"),
     Stanza("presence", "fin", "", "", "", "true", "received")}

\* Messages without an archive child, with and without a receipt child.
Messages ==
    {Stanza("message", "none", "", "", "qa", "", r) :
        r \in {"none", "received", "foreign"}}

\* Stanzas with a result child: well formed, without a query id, without a forwarded
\* message, with a receipt child too, with a fin child too, and as an iq.
Items ==
    {Stanza("message", "result", q, m, "", "", "none") : q \in QueryIds, m \in MsgIds}
        \cup {Stanza("message", "result", "", "m1", "", "", "none"),
              Stanza("message", "result", "qa", "", "", "", "none"),
              Stanza("message", "result", "qa", "m1", "", "", "received"),
              Stanza("message", "both", "qa", "m1", "", "", "none"),
              Stanza("iq", "result", "qa", "m1", "", "", "none")}

\* Stanzas with a fin child only: for a query id or none, complete or not.
Terminals ==
    {Stanza("iq", "fin", "", "", id, c, "none") :
        id \in {"qa", ""}, c \in {"true", "false"}}
        \cup {Stanza("iq", "fin", "", "", "qb", "true", "none"),
              Stanza("iq", "fin", "", "", "qb", "", "none"),
              Stanza("message", "fin", "", "", "qa", "true", "received")}

\* Stanzas of no kind the client handles.
Others ==
    {Stanza("iq", "none", "", "", "", "", "none"),
     Stanza("iq", "none", "", "", "", "", "received"),
     Stanza("other", "none", "", "", "", "", "none"),
     Stanza("other", "fin", "", "", "qa", "true", "none")}

Frames == Presences \cup Messages \cup Items \cup Terminals \cup Others

\* The fields of the client as one value.
Cl ==
    [messageCollections |-> messageCollections, stale |-> stale, parsed |-> NoResult,
     events |-> <<>>, pendingResults |-> pendingResults,
     pendingMessages |-> pendingMessages, handled |-> "none", frame |-> NoFrame,
     raised |-> FALSE, arrived |-> arrived, constructorConnect |-> constructorConnect]

Event(type, id, result) == [type |-> type, id |-> id, result |-> result]

emitEvent(c, e) == [c EXCEPT !.events = Append(@, e)]

isMAMStanza(f) == f.mam # "none"

isMessageStanza(f) == f.name = "message"

isRecieptStanza(f) == f.name = "message" /\ f.receipt # "none"

\* Mutant: the collection so far is returned with every item.
parseItemReturnsPartial(c, f) ==
    IF f.item = "" \/ f.queryid = "" THEN c
    ELSE [c EXCEPT !.messageCollections[f.queryid] = Append(@, f.item),
                   !.parsed = [queryId |-> f.queryid, complete |-> FALSE,
                               messages |-> Append(c.messageCollections[f.queryid],
                                                   f.item),
                               null |-> FALSE]]

\* parseResult on a stanza with a result child: the forwarded message is appended to
\* the collection of its query id, and null is returned.
parseItem(c, f) ==
    IF f.item = "" \/ f.queryid = "" THEN c
    ELSE [c EXCEPT !.messageCollections[f.queryid] = Append(@, f.item)]

\* Mutant: complete is true whenever the attribute is present.
finCompletePresent(f) == f.complete # ""

finComplete(f) == f.complete = "true"

\* Mutant: the result is also left in the collection.
parseFinKeepsCollection(c, f) ==
    LET messages == IF f.id \in QueryIds THEN c.messageCollections[f.id] ELSE <<>>
    IN  [c EXCEPT !.parsed = [queryId |-> f.id, complete |-> finComplete(f),
                              messages |-> messages, null |-> FALSE]]

\* Mutant: the terminal empties the collection of every query id.
parseFinClearsAll(c, f) ==
    LET messages == IF f.id \in QueryIds THEN c.messageCollections[f.id] ELSE <<>>
    IN  [c EXCEPT !.messageCollections = [q \in QueryIds |-> <<>>],
                  !.stale = IF @ = NoStale THEN @ ELSE [q \in QueryIds |-> 0],
                  !.parsed = [queryId |-> f.id, complete |-> finComplete(f),
                              messages |-> messages, null |-> FALSE]]

\* parseResult on a stanza with a fin child and no result child: the collection of
\* the stanza's id is taken out of the map and returned.
parseFin(c, f) ==
    LET messages == IF f.id \in QueryIds THEN c.messageCollections[f.id] ELSE <<>>
    IN  [c EXCEPT !.messageCollections =
                      [q \in QueryIds |-> IF q = f.id THEN <<>> ELSE c.messageCollections[q]],
                  !.stale = IF @ = NoStale THEN @
                            ELSE [q \in QueryIds |-> IF q = f.id THEN 0 ELSE c.stale[q]],
                  !.parsed = [queryId |-> f.id, complete |-> finComplete(f),
                              messages |-> messages, null |-> FALSE]]

parseResult(c, f) ==
    IF f.mam \in {"result", "both"} THEN parseItem(c, f)
    ELSE IF f.mam = "fin" THEN parseFin(c, f)
    ELSE c

\* handleMAMStanza: a result without messages is emitted in the turn; one with
\* messages waits for a status lookup per message, and is lost in the turn when
\* sendIQ refuses the lookups.
handleMAMStanza(c, f, allowed) ==
    LET c1 == parseResult(c, f)
    IN  IF c1.parsed.null THEN c1
        ELSE IF c1.parsed.messages = <<>>
        THEN emitEvent(c1, Event("mamResult", c1.parsed.queryId, c1.parsed))
        ELSE IF ~allowed THEN c1
        ELSE [c1 EXCEPT !.pendingResults =
                            Append(@, [result |-> c1.parsed,
                                       waiting |-> Len(c1.parsed.messages)])]

\* Mutant: parseReceipt fails on a child of another namespace and lets the failure out.
handleReceiptStanzaThrows(c, f) ==
    IF f.receipt = "received" THEN emitEvent(c, Event("receipt", f.id, NoResult))
    ELSE [c EXCEPT !.raised = TRUE]

\* handleReceiptStanza: parseReceipt finds only a child of the receipts namespace, and
\* returns null without one.
handleReceiptStanza(c, f) ==
    IF f.receipt = "received" THEN emitEvent(c, Event("receipt", f.id, NoResult))
    ELSE c

\* handleMessageStanza: the message is emitted when its status lookup resolves.
handleMessageStanza(c, f, allowed) ==
    IF ~allowed THEN c
    ELSE [c EXCEPT !.pendingMessages = Append(@, [id |-> f.id, overtaken |-> FALSE])]

\* The listener runs the branch h.
branch(c, h) == [c EXCEPT !.handled = h]

\* Mutant: the receipt marker is tested before the archive marker.
handleStanzaReceiptFirst(c, f, allowed) ==
    IF f.name = "presence"
    THEN emitEvent(branch(c, "presence"), Event("presence", f.id, NoResult))
    ELSE IF f.name \in {"message", "iq"}
    THEN IF isRecieptStanza(f) THEN handleReceiptStanza(branch(c, "receipt"), f)
         ELSE IF isMAMStanza(f) THEN handleMAMStanza(branch(c, "archive"), f, allowed)
         ELSE IF isMessageStanza(f)
         THEN handleMessageStanza(branch(c, "message"), f, allowed)
         ELSE branch(c, "ignored")
    ELSE branch(c, "ignored")

\* Mutant: a stanza that matches nothing is reported as a message.
handleStanzaDefaultsToMessage(c, f, allowed) ==
    IF f.name = "presence"
    THEN emitEvent(branch(c, "presence"), Event("presence", f.id, NoResult))
    ELSE IF f.name \in {"message", "iq"}
    THEN IF isMAMStanza(f) THEN handleMAMStanza(branch(c, "archive"), f, allowed)
         ELSE IF isRecieptStanza(f) THEN handleReceiptStanza(branch(c, "receipt"), f)
         ELSE handleMessageStanza(branch(c, "message"), f, allowed)
    ELSE branch(c, "ignored")

\* The listener of the connection's stanza event.
handleStanza(c, f, allowed) ==
    IF f.name = "presence"
    THEN emitEvent(branch(c, "presence"), Event("presence", f.id, NoResult))
    ELSE IF f.name \in {"message", "iq"}
    THEN IF isMAMStanza(f) THEN handleMAMStanza(branch(c, "archive"), f, allowed)
         ELSE IF isRecieptStanza(f) THEN handleReceiptStanza(branch(c, "receipt"), f)
         ELSE IF isMessageStanza(f)
         THEN handleMessageStanza(branch(c, "message"), f, allowed)
         ELSE branch(c, "ignored")
    ELSE branch(c, "ignored")

RECURSIVE Collected(_, _)
Collected(f, S) ==
    IF S = {} THEN 0
    ELSE LET q == CHOOSE x \in S : TRUE IN Len(f[q]) + Collected(f, S \ {q})

RECURSIVE Awaited(_)
Awaited(rs) ==
    IF rs = <<>> THEN 0 ELSE Len(Head(rs).result.messages) + Awaited(Tail(rs))

\* The messages the client holds.
InFlight(c) ==
    Collected(c.messageCollections, QueryIds) + Awaited(c.pendingResults)
        + Len(c.pendingMessages)

\* The step ends with the client's fields as in c.
BecomesClient(c) ==
    /\ InFlight(c) <= MaxInFlight
    /\ messageCollections' = c.messageCollections
    /\ stale' = c.stale
    /\ parsed' = c.parsed
    /\ events' = c.events
    /\ pendingResults' = c.pendingResults
    /\ pendingMessages' = c.pendingMessages
    /\ handled' = c.handled
    /\ frame' = c.frame
    /\ raised' = c.raised
    /\ arrived' = c.arrived
    /\ constructorConnect' = c.constructorConnect

\* What the client's steps leave alone.
connRest ==
    <<connectionTimeout, reconnectAttempts, reconnects, tr, backoffDisconnect,
      effects, observed, failures, thrown, sendVars, featureVars>>

\* A stanza the dispatcher hands to the archive handler.
Archived(f) == f.name \in {"message", "iq"} /\ f.mam # "none"

\* An archive item: a result child with a query id and a forwarded message.
IsItem(f) == Archived(f) /\ f.mam \in {"result", "both"} /\ f.queryid # "" /\ f.item # ""

\* An archive terminal: a fin child and no result child.
IsTerminal(f) == Archived(f) /\ f.mam = "fin"

\* The history after the stanza f has arrived: an item is added to those of its
\* query id, a terminal starts those of its query id afresh.
Arrives(a, f) ==
    IF IsItem(f) THEN [a EXCEPT ![f.queryid] = Append(@, f.item)]
    ELSE IF IsTerminal(f) /\ f.id \in QueryIds THEN [a EXCEPT ![f.id] = <<>>]
    ELSE a

\* A transport that carries the manager's stanza listener delivers the stanza f: the
\* one this.xmpp holds, or one that was replaced and never had its listeners removed,
\* whatever the status and the handle are by then.
Deliver(f) ==
    /\ BecomesClient(handleStanza([Cl EXCEPT !.frame = f, !.arrived = Arrives(@, f)],
                                  f, sendAllowed(Mgr)))
    /\ UNCHANGED <<status, xmpp, connRest>>

\* The status and the handle as the lifecycle leaves them.
Sessions ==
    {<<"disconnected", NoTransport>>, <<"disconnected", 1>>, <<"connecting", 1>>,
     <<"online", 1>>, <<"online", NoTransport>>, <<"error", 1>>,
     <<"error", NoTransport>>}

\* The client's listeners of the manager's status and error events: each status
\* event is emitted again, each error event as an error of code UNKNOWN.
RECURSIVE forward(_, _)
forward(c, effs) ==
    IF effs = <<>> THEN c
    ELSE LET e == Head(effs)
             c1 == IF \E st \in ConnectionStates : e = "status:" \o st
                   THEN emitEvent(c, Event("status",
                                           CHOOSE st \in ConnectionStates :
                                               e = "status:" \o st,
                                           NoResult))
                   ELSE IF e \in ErrorEffects
                   THEN emitEvent(c, Event("error", "UNKNOWN", NoResult))
                   ELSE c
         IN  forward(c1, Tail(effs))

\* The lifecycle has moved the manager on to s.  Of the manager the client's steps
\* follow the status and the handle, and its events; the messages collected so far
\* are noted as stale when the status leaves `online`.
SessionBecomes(s, c) ==
    /\ <<s.status, s.xmpp>> \in Sessions
    /\ status' = s.status
    /\ xmpp' = s.xmpp
    /\ BecomesClient(
           forward(IF status = "online" /\ s.status # "online"
                   THEN [c EXCEPT !.stale = Stale(@, messageCollections)]
                   ELSE c,
                   s.effects))
    /\ UNCHANGED connRest

\* connect() is called again, by the user or by a reconnect() after its backoff, and
\* goes through.
SessionConnects ==
    /\ connectGuard(Mgr) = "none"
    /\ SessionBecomes(connect(Mgr, FALSE), Cl)

\* A transport the manager listens to emits online; the connect() of the constructor
\* resolves if it waited for that.
SessionOnline(resolves) ==
    /\ resolves => constructorConnect = "pending"
    /\ SessionBecomes(handleOnline(Mgr),
                      IF resolves THEN [Cl EXCEPT !.constructorConnect = "settled"]
                      ELSE Cl)

\* A transport the manager listens to emits offline.
SessionOffline ==
    /\ SessionBecomes(handleOffline(Mgr), Cl)

\* The catch of the constructor: connect() has rejected.
constructorCatch(c) ==
    emitEvent([c EXCEPT !.constructorConnect = "settled"],
              Event("error", "CONNECTION_ERROR", NoResult))

\* The handleConnectionError calls one failure can make in a turn: one by the
\* manager's listener, a timeout or a catch, and the catches of the connect() calls
\* that wait on the failing transport (each connect() waits on a transport of its own
\* making or on a later one).
Catches == 1..(1 + MaxTransports * CatchCount(TRUE))

\* The turns in which the connect() of the constructor rejects, as the number of
\* handleConnectionError calls before and after the constructor's catch.  Its own
\* start() rejects: the catch of connect(), then the constructor's.  The transport it
\* waits on emits error: the manager's listener, the catch of each waiting connect()
\* in the order of waiting, then what awaits those connect() calls in the same order,
\* the catch of reconnect() for the rb calls that reconnect() made and that waited
\* before the constructor's, the constructor's catch, the catch of reconnect() for
\* the ra calls that waited after it.
ConstructorRejections ==
    {<<1, 0>>} \cup
    {<<1 + (m + 1) * CatchCount(FALSE) + rb * (CatchCount(TRUE) - CatchCount(FALSE)),
       ra * (CatchCount(TRUE) - CatchCount(FALSE))>> :
         <<m, rb, ra>> \in {w \in (0..(MaxTransports - 1)) \X (0..(MaxTransports - 1))
                                     \X (0..(MaxTransports - 1)) :
                               w[2] + w[3] <= w[1]}}

\* A failure without the constructor's connect(): handleConnectionError runs k times
\* in the turn (a transport error, a timeout, a rejected start() or stop(), a
\* connect() that reconnect() made in vain).
SessionFails(k) ==
    /\ SessionBecomes(handleConnectionErrors(Mgr, "transport", k), Cl)

\* A failure that rejects the connect() of the constructor: handleConnectionError
\* runs `before` times, the catch of the constructor emits its error, and
\* handleConnectionError runs `after` times more.
ConstructorConnectRejects(before, after) ==
    /\ constructorConnect = "pending"
    /\ LET s1 == handleConnectionErrors(Mgr, "transport", before)
           s2 == handleConnectionErrors([s1 EXCEPT !.effects = <<>>], "transport", after)
           c0 == IF status = "online"
                 THEN [Cl EXCEPT !.stale = Stale(@, messageCollections)]
                 ELSE Cl
       IN  /\ status' = s2.status
           /\ xmpp' = s2.xmpp
           /\ BecomesClient(forward(constructorCatch(forward(c0, s1.effects)),
                                    s2.effects))
    /\ UNCHANGED connRest

\* The stop() of a disconnect() resolves, after the offline signal of the transport
\* if it was still open, and cleanup() runs.
SessionStops(open) ==
    /\ SessionBecomes(cleanup(IF open THEN handleOffline(Mgr) ELSE Mgr), Cl)

Remove(seq, i) == SubSeq(seq, 1, i - 1) \o SubSeq(seq, i + 1, Len(seq))

\* A status lookup of the i-th pending archive result resolves (getStatus returns a
\* status, the default one for item-not-found included); after the last one the
\* result is emitted.
ResultLookupResolves(i) ==
    /\ i \in 1..Len(pendingResults)
    /\ BecomesClient(
           IF pendingResults[i].waiting > 1
           THEN [Cl EXCEPT !.pendingResults[i].waiting = @ - 1]
           ELSE emitEvent([Cl EXCEPT !.pendingResults = Remove(@, i)],
                          Event("mamResult", pendingResults[i].result.queryId,
                                pendingResults[i].result)))
    /\ UNCHANGED <<status, xmpp, connRest>>

\* A status lookup of the i-th pending archive result rejects: Promise.all rejects and
\* its then never runs.
ResultLookupRejects(i) ==
    /\ i \in 1..Len(pendingResults)
    /\ BecomesClient([Cl EXCEPT !.pendingResults = Remove(@, i)])
    /\ UNCHANGED <<status, xmpp, connRest>>

\* The status lookup of the i-th pending message resolves: the message is emitted.
\* The messages delivered before it that still wait have been overtaken.
MessageLookupResolves(i) ==
    /\ i \in 1..Len(pendingMessages)
    /\ LET marked == [k \in 1..Len(pendingMessages) |->
                         IF k < i THEN [pendingMessages[k] EXCEPT !.overtaken = TRUE]
                         ELSE pendingMessages[k]]
       IN  BecomesClient(emitEvent([Cl EXCEPT !.pendingMessages = Remove(marked, i)],
                                   Event("message", pendingMessages[i].id, NoResult)))
    /\ UNCHANGED <<status, xmpp, connRest>>

\* The status lookup of the i-th pending message rejects: its then never runs.
MessageLookupRejects(i) ==
    /\ i \in 1..Len(pendingMessages)
    /\ BecomesClient([Cl EXCEPT !.pendingMessages = Remove(@, i)])
    /\ UNCHANGED <<status, xmpp, connRest>>

NextClient ==
    \/ \E f \in Frames : Deliver(f)
    \/ SessionConnects
    \/ \E resolves \in BOOLEAN : SessionOnline(resolves)
    \/ SessionOffline
    \/ \E k \in Catches : SessionFails(k)
    \/ \E r \in ConstructorRejections : ConstructorConnectRejects(r[1], r[2])
    \/ \E open \in BOOLEAN : SessionStops(open)
    \/ \E i \in 1..MaxInFlight : ResultLookupResolves(i)
    \/ \E i \in 1..MaxInFlight : ResultLookupRejects(i)
    \/ \E i \in 1..MaxInFlight : MessageLookupResolves(i)
    \/ \E i \in 1..MaxInFlight : MessageLookupRejects(i)

\* The manager as its constructor leaves it.
Constructed ==
    [status |-> "disconnected", xmpp |-> NoTransport, connectionTimeout |-> "none",
     reconnectAttempts |-> 0, reconnects |-> 0,
     tr |-> [t \in Transports |-> NoneTransport], backoffDisconnect |-> "none",
     effects |-> <<>>, observed |-> <<>>]

\* new EjabberdClient(config): the listeners are set up and connect() is called, whose
\* first turn runs inside the constructor.
InitClient ==
    /\ InitRest
    /\ LET s == connect(Constructed, FALSE)
       IN  /\ status = s.status
           /\ xmpp = s.xmpp
           /\ events = forward([events |-> <<>>], s.effects).events
    /\ constructorConnect = "pending"

\* The client after construction; the histories are not kept.
InitPlain == InitClient /\ failures = Uncounted /\ stale = NoStale

\* The client after construction, with the history of stale messages kept.
InitStale == InitClient /\ failures = Uncounted /\ stale = [q \in QueryIds |-> 0]

SpecClient == InitPlain /\ [][NextClient]_vars

\* The same steps, with the history of stale messages kept.
SpecDrops == InitStale /\ [][NextClient]_vars

\* The collection the terminal f closes.
CollectionOf(f) == IF f.id \in QueryIds THEN messageCollections[f.id] ELSE <<>>

\* The events of a type among evs.
EventsOf(type, evs) == {i \in DOMAIN evs : evs[i].type = type}

(***************************************************************************)
(* C13..C20: the archive handler and the dispatcher.  A step delivers the  *)
(* stanza frame' when frame' is not NoFrame.                               *)
(***************************************************************************)

\* C13: an item is appended to the collection of its query id and to no other; the
\* terminal of a query id returns exactly the items collected for it, in the order
\* they arrived, and removes the collection, so that a second terminal returns none.
C13_TerminalReturnsItemsInOrder ==
    [][/\ IsItem(frame') =>
             messageCollections' =
                 [messageCollections EXCEPT ![frame'.queryid] = Append(@, frame'.item)]
       /\ IsTerminal(frame') =>
             /\ ~parsed'.null
             /\ parsed'.queryId = frame'.id
             /\ parsed'.messages = CollectionOf(frame')
             /\ \A q \in QueryIds :
                    messageCollections'[q] =
                        IF q = frame'.id THEN <<>> ELSE messageCollections[q]]_vars

\* A terminal has returned two items in the order they arrived.
C13_Witness ==
    /\ IsTerminal(frame)
    /\ ~parsed.null
    /\ parsed.messages = <<"m2", "m1">>
    /\ messageCollections[parsed.queryId] = <<>>

\* C14: a terminal for a query id without collected items, an unknown one included,
\* returns a result without messages and with `complete` as the stanza states it, and
\* leaves the collections as they were.
C14_TerminalWithoutItems ==
    [][IsTerminal(frame') /\ CollectionOf(frame') = <<>> =>
          /\ parsed' = [queryId |-> frame'.id, complete |-> (frame'.complete = "true"),
                        messages |-> <<>>, null |-> FALSE]
          /\ messageCollections' = messageCollections]_vars

\* A terminal for an unknown query id has returned an empty, incomplete result while
\* a query id holds items.
C14_Witness ==
    /\ IsTerminal(frame)
    /\ frame.id \notin QueryIds
    /\ frame.complete = "false"
    /\ parsed = [queryId |-> frame.id, complete |-> FALSE, messages |-> <<>>,
                 null |-> FALSE]
    /\ \E q \in QueryIds : messageCollections[q] # <<>>

\* C15: an item returns no result, emits no mamResult and starts no status lookup; a
\* mamResult carries the result of a terminal, of this step or of an earlier one whose
\* lookups have settled.
C15_NoPartialResult ==
    [][/\ Archived(frame') /\ frame'.mam \in {"result", "both"} =>
              /\ parsed' = NoResult
              /\ events' = <<>>
              /\ pendingResults' = pendingResults
       /\ \A i \in EventsOf("mamResult", events') :
              \/ IsTerminal(frame') /\ events'[i].result = parsed'
              \/ /\ frame' = NoFrame
                 /\ \E k \in DOMAIN pendingResults :
                        /\ pendingResults[k].result = events'[i].result
                        /\ pendingResults[k].waiting = 1
                        /\ pendingResults' = Remove(pendingResults, k)]_vars

\* The second item of a query has been collected and nothing was returned or emitted.
C15_Witness ==
    /\ IsItem(frame)
    /\ Len(messageCollections[frame.queryid]) = 2
    /\ parsed = NoResult
    /\ events = <<>>
    /\ pendingResults = <<>>

\* C16: a terminal that arrives while online returns no item collected before the
\* status last left `online`.
C16_PartialsDiscardedOnDrop ==
    [][IsTerminal(frame') /\ frame'.id \in QueryIds /\ status = "online" =>
          /\ stale[frame'.id] = 0
          /\ Len(parsed'.messages) <= Len(messageCollections[frame'.id])
                                         - stale[frame'.id]]_vars

\* C17: a terminal's result is emitted in the step or waits for its lookups, and a
\* waiting result leaves with exactly one mamResult.
C17_ResultEmittedOnce ==
    [][/\ IsTerminal(frame') =>
              \/ /\ Cardinality(EventsOf("mamResult", events')) = 1
                 /\ pendingResults' = pendingResults
              \/ /\ events' = <<>>
                 /\ Len(pendingResults') = Len(pendingResults) + 1
       /\ Len(pendingResults') < Len(pendingResults) =>
              Cardinality(EventsOf("mamResult", events')) = 1]_vars

\* C18: a presence stanza is only ever a presence; an archive stanza goes to the
\* archive handler only, with a receipt marker too; a message with a receipt marker
\* is at most a receipt and never a message; any other message is a message.
C18_RoutingPrecedence ==
    [][/\ frame'.name = "presence" =>
             /\ handled' = "presence"
             /\ events' = <<Event("presence", frame'.id, NoResult)>>
             /\ UNCHANGED <<messageCollections, pendingResults, pendingMessages>>
       /\ Archived(frame') =>
             /\ handled' = "archive"
             /\ EventsOf("receipt", events') = {}
             /\ EventsOf("message", events') = {}
             /\ pendingMessages' = pendingMessages
             /\ IsItem(frame') => messageCollections' # messageCollections
       /\ frame'.name = "message" /\ frame'.mam = "none" /\ frame'.receipt # "none" =>
             /\ handled' = "receipt"
             /\ events' = IF frame'.receipt = "received"
                          THEN <<Event("receipt", frame'.id, NoResult)>> ELSE <<>>
             /\ UNCHANGED <<messageCollections, pendingResults, pendingMessages>>
       /\ frame'.name = "message" /\ frame'.mam = "none" /\ frame'.receipt = "none" =>
             /\ handled' = "message"
             /\ events' = <<>>
             /\ pendingMessages' =
                    IF status = "online" /\ xmpp # NoTransport
                    THEN Append(pendingMessages, [id |-> frame'.id, overtaken |-> FALSE])
                    ELSE pendingMessages
             /\ UNCHANGED <<messageCollections, pendingResults>>]_vars

\* An archive item with a receipt marker has been collected while online: no receipt
\* and no message came of it.
C18_Witness ==
    /\ IsItem(frame)
    /\ frame.receipt = "received"
    /\ frame.name = "message"
    /\ handled = "archive"
    /\ messageCollections[frame.queryid] # <<>>
    /\ events = <<>>
    /\ pendingMessages = <<>>
    /\ status = "online"

\* C19: a stanza that is no presence and no message and has no archive marker
\* produces no event and changes neither the collections, the lookups in flight nor
\* the connection.
C19_UnrelatedStanzaIgnored ==
    [][frame' # NoFrame /\ frame'.name \notin {"presence", "message"}
                        /\ frame'.mam = "none" =>
          /\ handled' = "ignored"
          /\ events' = <<>>
          /\ parsed' = NoResult
          /\ UNCHANGED <<messageCollections, pendingResults, pendingMessages, status,
                         xmpp, connRest>>]_vars

\* An iq without markers has been delivered while online, with items collected and a
\* lookup in flight, and nothing was emitted.
C19_Witness ==
    /\ frame = Stanza("iq", "none", "", "", "", "", "none")
    /\ handled = "ignored"
    /\ events = <<>>
    /\ status = "online"
    /\ \E q \in QueryIds : messageCollections[q] # <<>>
    /\ pendingMessages # <<>>

\* C20: a message is never emitted after one that was delivered after it.
C20_MessagesInDeliveryOrder ==
    [][\A i \in DOMAIN pendingMessages :
          MessageLookupResolves(i) => ~pendingMessages[i].overtaken]_vars

(***************************************************************************)
(* The message status calls of the client (MessageStatusManager) and       *)
(* queryArchive.  The user makes one call at a time; a step is a turn of   *)
(* the event loop: the call up to its first await, or the continuation of  *)
(* one await.                                                              *)
(***************************************************************************)

\* The messages the user marks.
Marked ==
    {[id |-> "m1", from |-> "alice", to |-> "me"],
     [id |-> "m2", from |-> "carol", to |-> "me"]}

\* The message lists given to markMultipleAsRead and markMultipleAsDelivered; a list
\* of one message is also what markAsRead and markAsDelivered are called with.
Batches ==
    {[k \in 1..n |-> IF k % 2 = 1 THEN [id |-> "m1", from |-> "alice", to |-> "me"]
                     ELSE [id |-> "m2", from |-> "carol", to |-> "me"]] :
        n \in 0..MaxBatch}
        \cup {<<m>> : m \in Marked}

Err(cond, msg) == [name |-> "Error", condition |-> cond, message |-> msg]

\* The structured errors the server answers a status query with.
ServerErrors ==
    {Err("bad-request", m) : m \in {"bad jid", "Invalid JID", "bad id"}}
        \cup {Err("item-not-found", "gone"), Err("forbidden", "denied"),
              Err("conflict", "")}

\* The errors of the transport, which carry no condition.
TransportErrors == {Err("", "timeout")}

\* The status elements of a response: the attributes as the server wrote them.
StatusElements == [delivered : {"true", "false"}, read : {"true", ""}]

\* The status and the handle as the lifecycle leaves them.
Links ==
    {<<"disconnected", NoTransport>>, <<"disconnected", 1>>, <<"connecting", 1>>,
     <<"online", 1>>, <<"online", NoTransport>>, <<"error", 1>>,
     <<"error", NoTransport>>}

\* String.prototype.includes.
includes(text, part) ==
    \E i \in 1..(Len(text) - Len(part) + 1) : SubSeq(text, i, i + Len(part) - 1) = part

Failure(type, msg) == [name |-> type, condition |-> "", message |-> msg]

\* Mutant: a bad request is always an invalid id.
handleErrorIgnoresJid(error) ==
    LET message == IF error.message # "" THEN error.message ELSE "Unknown error"
    IN  IF error.condition = "item-not-found"
        THEN Failure("not_found", "Message status not found")
        ELSE IF error.condition = "forbidden"
        THEN Failure("unauthorized", "Not authorized to access message status")
        ELSE IF error.condition = "bad-request"
        THEN Failure("invalid_id", "Invalid message ID")
        ELSE Failure("server_error", message)

\* MessageStatusManager.handleError.
handleError(error) ==
    LET message == IF error.message # "" THEN error.message ELSE "Unknown error"
    IN  IF error.condition = "item-not-found"
        THEN Failure("not_found", "Message status not found")
        ELSE IF error.condition = "forbidden"
        THEN Failure("unauthorized", "Not authorized to access message status")
        ELSE IF error.condition = "bad-request"
        THEN IF includes(message, "jid")
             THEN Failure("invalid_jid", "Invalid JID format")
             ELSE Failure("invalid_id", "Invalid message ID")
        ELSE Failure("server_error", message)

\* The set-IQ of markAsRead and markAsDelivered.
markIQ(kind, m) ==
    [name |-> IF kind = "read" THEN "mark-read" ELSE "mark-delivered", type |-> "set",
     to |-> "", id |-> m.id]

\* The message of sendReadReceipt and sendDeliveryReceipt.
receipt(kind, m) ==
    [name |-> IF kind = "read" THEN "displayed" ELSE "received", type |-> "chat",
     to |-> m.from, id |-> m.id]

\* The operation fails: the transport or a guard produced `answer`, and the catch of
\* markAsRead is given `caught`.
failed(op, answer, caught) ==
    [op EXCEPT !.stage = "failed", !.answer = answer, !.error = handleError(caught)]

\* Mutant: the receipt is sent along with the set-IQ.
markStartSendsReceipt(kind, m, s) ==
    LET op == [msg |-> m, stage |-> "iq", wire |-> <<>>, answer |-> NoError,
               error |-> NoError]
    IN  IF sendAllowed(s)
        THEN [op EXCEPT !.wire = <<markIQ(kind, m), receipt(kind, m)>>]
        ELSE failed(op, Err("", "Not connected to server"),
                    Rejected("Not connected to server"))

\* markAsRead and markAsDelivered up to the await of sendIQ.
markStart(kind, m, s) ==
    LET op == [msg |-> m, stage |-> "iq", wire |-> <<>>, answer |-> NoError,
               error |-> NoError]
    IN  IF sendAllowed(s) THEN [op EXCEPT !.wire = <<markIQ(kind, m)>>]
        ELSE failed(op, Err("", "Not connected to server"),
                    Rejected("Not connected to server"))

\* The set-IQ succeeded: the receipt is handed to sendStanza.
markIQResolved(kind, op, s) ==
    IF isConnected(s)
    THEN [op EXCEPT !.stage = "receipt", !.wire = Append(@, receipt(kind, op.msg))]
    ELSE failed(op, Err("", "Not connected to server"),
                Rejected("Not connected to server"))

AllDone(os) == \A k \in DOMAIN os : os[k].stage = "done"

AnyFailed(os) == \E k \in DOMAIN os : os[k].stage = "failed"

Settled(os) == \A k \in DOMAIN os : os[k].stage \in {"done", "failed"}

\* Promise.all over the operations os, of which the i-th has just moved on.
settle(c, os, i) ==
    IF c.state # "pending" THEN c
    ELSE IF os[i].stage = "failed"
    THEN [c EXCEPT !.state = "rejected", !.error = os[i].error]
    ELSE IF AllDone(os) THEN [c EXCEPT !.state = "resolved"]
    ELSE c

\* Mutant: the messages marked so far are reported when the call fails.
reportPartial(c, c1, os) ==
    IF c.state # "pending" \/ c1.state = "pending" THEN <<>>
    ELSE IF c1.state = "rejected"
    THEN <<Event("message:" \o c.name \o ":error", c1.error.name, NoResult)>>
             \o [k \in 1..Len(SelectSeq(os, LAMBDA o : o.stage = "done")) |->
                    Event("message:" \o c.name,
                          SelectSeq(os, LAMBDA o : o.stage = "done")[k].msg.id, NoResult)]
    ELSE [k \in DOMAIN os |-> Event("message:" \o c.name, os[k].msg.id, NoResult)]

\* What markMultipleMessagesAsRead/Delivered emit when the call settles: an event per
\* message, or one error event.
report(c, c1, os) ==
    IF c.state # "pending" \/ c1.state = "pending" THEN <<>>
    ELSE IF c1.state = "rejected"
    THEN <<Event("message:" \o c.name \o ":error", c1.error.name, NoResult)>>
    ELSE [k \in DOMAIN os |-> Event("message:" \o c.name, os[k].msg.id, NoResult)]

\* What the steps of the calls leave alone.
callRest ==
    <<connectionTimeout, reconnectAttempts, reconnects, tr, backoffDisconnect,
      effects, observed, failures, thrown, sendVars, messageCollections, stale, parsed,
      pendingResults, pendingMessages, handled, frame, raised, arrived,
      constructorConnect, given, made, upload>>

\* No call is pending and no operation of an earlier call is in flight.
Idle == call.state # "pending" /\ Settled(ops)

\* The lifecycle moves on.
LinkMoves ==
    /\ \E l \in Links :
           /\ l # <<status, xmpp>>
           /\ status' = l[1]
           /\ xmpp' = l[2]
    /\ events' = <<>>
    /\ UNCHANGED <<call, ops, callRest>>

\* The user calls markMultipleMessagesAsRead or markMultipleMessagesAsDelivered (kind)
\* with the messages ms: every markAsRead runs up to its await in this turn.
UserMarkMultiple(kind, ms) ==
    /\ Idle
    /\ LET os == [k \in DOMAIN ms |-> markStart(kind, ms[k], Mgr)]
           c == [NoCall EXCEPT !.name = kind, !.state = "pending"]
           c1 == IF os = <<>> THEN [c EXCEPT !.state = "resolved"]
                 ELSE settle(c, os, 1)
       IN  /\ ops' = os
           /\ call' = c1
           /\ events' = report(c, c1, os)
    /\ UNCHANGED <<status, xmpp, callRest>>

\* The i-th operation moves on to op.
OpBecomes(i, op) ==
    LET os == [ops EXCEPT ![i] = op]
        c1 == settle(call, os, i)
    IN  /\ ops' = os
        /\ call' = c1
        /\ events' = report(call, c1, os)
        /\ UNCHANGED <<status, xmpp, callRest>>

\* sendIQ of the i-th operation resolves.
MarkIQResolves(i) ==
    /\ i \in DOMAIN ops
    /\ ops[i].stage = "iq"
    /\ OpBecomes(i, markIQResolved(call.name, ops[i], Mgr))

\* sendIQ of the i-th operation rejects: iqCaller.request() failed with err.
MarkIQRejects(i, err) ==
    /\ i \in DOMAIN ops
    /\ ops[i].stage = "iq"
    /\ OpBecomes(i, failed(ops[i], err, sendIQError(err)))

\* sendStanza of the receipt of the i-th operation resolves.
ReceiptResolves(i) ==
    /\ i \in DOMAIN ops
    /\ ops[i].stage = "receipt"
    /\ OpBecomes(i, [ops[i] EXCEPT !.stage = "done"])

\* sendStanza of the receipt of the i-th operation rejects.
ReceiptRejects(i, err) ==
    /\ i \in DOMAIN ops
    /\ ops[i].stage = "receipt"
    /\ OpBecomes(i, failed(ops[i], err, err))

\* The call ends as c: the client's wrapper emits nothing for getStatus and
\* queryArchive.
CallBecomes(c) ==
    /\ call' = c
    /\ ops' = <<>>
    /\ events' = <<>>
    /\ UNCHANGED <<status, xmpp, callRest>>

\* Mutant: a missing message is an error like any other.
getStatusCatchRejectsAll(c, answer, caught) ==
    [c EXCEPT !.state = "rejected", !.answer = answer, !.error = handleError(caught)]

\* The catch of getStatus.
getStatusCatch(c, answer, caught) ==
    IF caught.condition = "item-not-found"
    THEN [c EXCEPT !.state = "resolved", !.answer = answer,
                   !.value = [delivered |-> FALSE, read |-> FALSE, null |-> FALSE]]
    ELSE [c EXCEPT !.state = "rejected", !.answer = answer,
                   !.error = handleError(caught)]

\* The user calls getMessageStatus.
UserGetStatus ==
    /\ Idle
    /\ LET c == [NoCall EXCEPT !.name = "getStatus", !.state = "pending"]
       IN  CallBecomes(
               IF sendAllowed(Mgr)
               THEN [c EXCEPT !.wire = <<[name |-> "get-status", type |-> "get",
                                          to |-> "", id |-> "m1"]>>]
               ELSE getStatusCatch(c, Err("", "Not connected to server"),
                                   Rejected("Not connected to server")))

\* The response of the status query arrives with the status element el.
StatusResponds(el) ==
    /\ call.name = "getStatus"
    /\ call.state = "pending"
    /\ CallBecomes([call EXCEPT !.state = "resolved",
                                !.answer = [name |-> "status", condition |-> "",
                                            message |-> ""],
                                !.element = el,
                                !.value = [delivered |-> el.delivered = "true",
                                           read |-> el.read = "true",
                                           null |-> FALSE]])

\* The response of the status query arrives without a status element.
StatusMissing ==
    /\ call.name = "getStatus"
    /\ call.state = "pending"
    /\ CallBecomes(getStatusCatch(call, [name |-> "empty", condition |-> "",
                                         message |-> ""],
                                  Err("", "Invalid response format")))

\* The status query fails with err.
StatusRejects(err) ==
    /\ call.name = "getStatus"
    /\ call.state = "pending"
    /\ CallBecomes(getStatusCatch(call, err, sendIQError(err)))

\* The user calls queryArchive: the query goes to the transport the manager holds.
UserQueryArchive ==
    /\ Idle
    /\ LET c == [NoCall EXCEPT !.name = "queryArchive", !.state = "pending"]
       IN  CallBecomes(
               IF Mgr.xmpp = NoTransport
               THEN [c EXCEPT !.state = "rejected",
                              !.error = Err("", "Client is not connected")]
               ELSE [c EXCEPT !.wire = <<[name |-> "query", type |-> "set", to |-> "",
                                          id |-> "qa"]>>])

\* client.send() of the archive query resolves.
ArchiveQuerySent ==
    /\ call.name = "queryArchive"
    /\ call.state = "pending"
    /\ CallBecomes([call EXCEPT !.state = "resolved"])

\* client.send() of the archive query rejects.
ArchiveQueryFails(err) ==
    /\ call.name = "queryArchive"
    /\ call.state = "pending"
    /\ CallBecomes([call EXCEPT !.state = "rejected", !.answer = err, !.error = err])

NextStatus ==
    \/ LinkMoves
    \/ \E kind \in {"read", "delivered"}, ms \in Batches : UserMarkMultiple(kind, ms)
    \/ \E i \in 1..MaxBatch : MarkIQResolves(i)
    \/ \E i \in 1..MaxBatch, err \in ServerErrors \cup TransportErrors :
           MarkIQRejects(i, err)
    \/ \E i \in 1..MaxBatch : ReceiptResolves(i)
    \/ \E i \in 1..MaxBatch, err \in TransportErrors : ReceiptRejects(i, err)
    \/ UserGetStatus
    \/ \E el \in StatusElements : StatusResponds(el)
    \/ StatusMissing
    \/ \E err \in ServerErrors \cup TransportErrors : StatusRejects(err)
    \/ UserQueryArchive
    \/ ArchiveQuerySent
    \/ \E err \in TransportErrors : ArchiveQueryFails(err)

SpecStatus == Init /\ [][NextStatus]_vars

MarkCall == call.name \in {"read", "delivered"}

\* The frames the operations of the call have handed to the connection.
SetIQs(os) == {k \in DOMAIN os : Len(os[k].wire) >= 1}

Receipts(os) == {k \in DOMAIN os : Len(os[k].wire) >= 2}

\* C21: an operation of markAsRead (markAsDelivered) has handed over at most one frame
\* while its set-IQ is awaited, the `mark-read` (`mark-delivered`) set-IQ; a second
\* frame appears only in the step in which that IQ succeeds and it is the `displayed`
\* (`received`) receipt addressed to message.from; in the step in which the IQ fails
\* nothing is handed over, and a failed operation has rejected its call.
C21_ReceiptOnlyAfterIQ ==
    [][\A i \in DOMAIN ops' :
           LET o == ops'[i]
               read == call'.name = "read"
               iq == [name |-> IF read THEN "mark-read" ELSE "mark-delivered",
                      type |-> "set", to |-> "", id |-> o.msg.id]
               rc == [name |-> IF read THEN "displayed" ELSE "received",
                      type |-> "chat", to |-> o.msg.from, id |-> o.msg.id]
           IN  /\ call'.name \in {"read", "delivered"}
               /\ (o.stage = "iq") => (o.wire = <<iq>>)
               /\ (o.stage \in {"receipt", "done"}) => (o.wire = <<iq, rc>>)
               /\ (o.stage = "failed") =>
                      (o.wire \in {<<>>, <<iq>>, <<iq, rc>>} /\ call'.state = "rejected"
                           /\ call'.error.name # "")
               /\ (i \in DOMAIN ops /\ Len(o.wire) = 2 /\ Len(ops[i].wire) < 2) =>
                      (ops[i].stage = "iq" /\ o.stage = "receipt")
               /\ (i \in DOMAIN ops /\ ops[i].stage = "iq" /\ o.stage = "failed") =>
                      (o.wire = ops[i].wire)]_vars

\* markAsRead of one message has resolved: one set-IQ, then one receipt to the sender.
C21_Witness ==
    /\ call.name = "read"
    /\ call.state = "resolved"
    /\ Len(ops) = 1
    /\ ops[1].stage = "done"
    /\ ops[1].wire[2].to = "alice"

\* C22: getStatus has resolved to {delivered: false, read: false} when its query failed
\* with item-not-found, has rejected after every other failure, and has resolved to the
\* flags of the status element when the response carried one.
C22_GetStatusNotFoundIsDefault ==
    (call.name = "getStatus" /\ call.state # "pending") =>
        /\ (call.answer.condition = "item-not-found") =>
               (call.state = "resolved" /\ ~call.value.null
                    /\ ~call.value.delivered /\ ~call.value.read)
        /\ (call.answer.name = "status") =>
               (call.state = "resolved" /\ ~call.value.null
                    /\ call.value.delivered = (call.element.delivered = "true")
                    /\ call.value.read = (call.element.read = "true"))
        /\ (call.answer.name # "status" /\ call.answer.condition # "item-not-found") =>
               (call.state = "rejected" /\ call.error.name # "")

\* getStatus resolved to the default after item-not-found.
C22_Witness ==
    /\ call.name = "getStatus"
    /\ call.state = "resolved"
    /\ call.answer.condition = "item-not-found"

\* The error kind the claim gives to the failure `answer`.
KindOf(answer) ==
    CASE answer.condition = "item-not-found" -> "not_found"
      [] answer.condition = "forbidden" -> "unauthorized"
      [] answer.condition = "bad-request" ->
             IF \E i \in 1..(Len(answer.message) - 2) :
                    SubSeq(answer.message, i, i + 2) = "jid"
             THEN "invalid_jid" ELSE "invalid_id"
      [] OTHER -> "server_error"

\* C23: a failed operation of markAsRead/markAsDelivered and a rejected getStatus carry
\* the error kind of the condition of the failure: not_found, unauthorized, invalid_jid
\* or invalid_id, and server_error for another condition or none.
C23_ErrorKindFromCondition ==
    /\ \A i \in DOMAIN ops :
           (ops[i].stage = "failed") => (ops[i].error.name = KindOf(ops[i].answer))
    /\ (call.name \in {"read", "delivered"} /\ call.state = "rejected") =>
           (\E i \in DOMAIN ops : ops[i].stage = "failed" /\ call.error = ops[i].error)
    /\ (call.name = "getStatus" /\ call.state = "rejected") =>
           (call.error.name = KindOf(call.answer))

\* A bad request naming the jid was reported as invalid_jid, and the call failed with it.
C23_Witness ==
    /\ MarkCall
    /\ call.state = "rejected"
    /\ call.error.name = "invalid_jid"
    /\ ops[1].answer = Err("bad-request", "bad jid")

IsMarkEvent(e) == e.type \in {"message:read", "message:delivered"}

\* C24: a batch call started while online hands over the set-IQ of every message in its
\* first turn; when every operation is done the call has resolved with one set-IQ and
\* one receipt per message; when an operation has failed the call has rejected; and a
\* `message:read`/`message:delivered` event is emitted only in the step in which the
\* call resolves, one per message, so never for a batch that rejects.
C24_BatchAllOrNothing ==
    [][/\ (Idle /\ call' # call /\ call'.name \in {"read", "delivered"}
               /\ status = "online" /\ xmpp # NoTransport) =>
              (\A i \in DOMAIN ops' : Len(ops'[i].wire) = 1)
       /\ (call'.name \in {"read", "delivered"} /\ AllDone(ops')) =>
              (call'.state = "resolved" /\ SetIQs(ops') = DOMAIN ops'
                   /\ Receipts(ops') = DOMAIN ops')
       /\ (call'.name \in {"read", "delivered"} /\ AnyFailed(ops')) =>
              (call'.state = "rejected")
       /\ (call'.state = "rejected") =>
              (\A k \in DOMAIN events' : ~IsMarkEvent(events'[k]))
       /\ (\E k \in DOMAIN events' : IsMarkEvent(events'[k])) =>
              (call'.state = "resolved" /\ call # call' /\ AllDone(ops')
                   /\ Len(events') = Len(ops')
                   /\ \A k \in DOMAIN events' :
                          events'[k] = Event("message:" \o call'.name, ops'[k].msg.id,
                                             NoResult))]_vars

\* A batch of two has rejected although one of its messages was marked.
C24_Witness ==
    /\ MarkCall
    /\ call.state = "rejected"
    /\ Len(ops) = 2
    /\ \E i, j \in DOMAIN ops : ops[i].stage = "done" /\ ops[j].stage = "failed"
    /\ events # <<>>

\* C25: a queryArchive call made while the status is not online is rejected with the
\* not-connected error and hands no query to the transport.
C25_QueryArchiveNeedsOnline ==
    [][(Idle /\ call' # call /\ call'.name = "queryArchive" /\ status # "online") =>
           (call'.state = "rejected" /\ call'.wire = <<>>
                /\ call'.error = Err("", "Client is not connected"))]_vars

\* The frames a parser has nothing to return for: an archive item without a query id or
\* without a forwarded message, and a message whose receipt child is of another
\* namespace.
Malformed(f) ==
    \/ f.mam \in {"result", "both"} /\ (f.queryid = "" \/ f.item = "")
    \/ f.mam = "none" /\ f.name = "message" /\ f.receipt = "foreign"

\* C26: the listener's turn for a delivered stanza never ends with an exception and
\* always runs one of its branches; for a malformed stanza the parser returns null:
\* nothing is emitted, and the collections and the pending lookups stay as they were,
\* so the stanzas delivered afterwards are handled as if it had not arrived.
C26_ParseFailuresNotThrown ==
    [][(frame' # NoFrame) =>
           /\ ~raised'
           /\ handled' \in {"presence", "archive", "receipt", "message", "ignored"}
           /\ Malformed(frame') =>
                  (parsed' = NoResult /\ events' = <<>>
                       /\ messageCollections' = messageCollections
                       /\ pendingResults' = pendingResults
                       /\ pendingMessages' = pendingMessages)]_vars

\* A message with a receipt child of another namespace was delivered while an archive
\* collection was under way.
C26_Witness ==
    /\ Malformed(frame)
    /\ frame.receipt = "foreign"
    /\ handled = "receipt"
    /\ \E q \in QueryIds : messageCollections[q] # <<>>

(***************************************************************************)
(* The constructor of ConnectionManager.  An optional field of the config  *)
(* is <<>> when it is not set and <<v>> when it is set to v.               *)
(***************************************************************************)

TIMEOUT == 10000

\* The values a required field is given: not set, empty, set.
FieldValues(v) == {<<>>, <<"">>, <<v>>}

\* The configs the constructor is called with.
Configs ==
    [service : FieldValues("ws://host"), domain : FieldValues("host"),
     username : FieldValues("alice"), password : FieldValues("secret"),
     resource : {<<>>, <<"web">>}, timeout : {<<>>, <<0>>, <<5000>>}]

\* !x of an optional string and of an optional number.
falsyString(o) == o = <<>> \/ o[1] = ""

falsyNumber(o) == o = <<>> \/ o[1] = 0

Thrown(message) == [state |-> "threw", message |-> message]

\* Mutant: the password is not required.
validateConfigWithoutPassword(config) ==
    IF falsyString(config.service) \/ falsyString(config.domain)
           \/ falsyString(config.username)
    THEN Thrown("Invalid configuration: missing required fields")
    ELSE [state |-> "returned",
          value |-> [config EXCEPT !.timeout = IF falsyNumber(@) THEN <<TIMEOUT>> ELSE @]]

\* Mutant: the timeout is left as it was given.
validateConfigWithoutDefault(config) ==
    IF falsyString(config.service) \/ falsyString(config.domain)
           \/ falsyString(config.username) \/ falsyString(config.password)
    THEN Thrown("Invalid configuration: missing required fields")
    ELSE [state |-> "returned", value |-> config]

\* ConnectionManager.validateConfig.
validateConfig(config) ==
    IF falsyString(config.service) \/ falsyString(config.domain)
           \/ falsyString(config.username) \/ falsyString(config.password)
    THEN Thrown("Invalid configuration: missing required fields")
    ELSE [state |-> "returned",
          value |-> [config EXCEPT !.timeout = IF falsyNumber(@) THEN <<TIMEOUT>> ELSE @]]

\* new ConnectionManager(config): the fields of the new manager, the transports created
\* and the events emitted, or what was thrown.
constructor(config) ==
    LET v == validateConfig(config)
    IN  IF v.state = "threw" THEN [v EXCEPT !.state = "threw"]
        ELSE [state |-> "constructed", xmpp |-> NoTransport, status |-> "disconnected",
              connectionTimeout |-> FALSE, reconnectAttempts |-> 0, config |-> v.value,
              transports |-> 0, emitted |-> <<>>]

\* What the constructor and the builders leave alone.
pureRest ==
    <<status, xmpp, connectionTimeout, reconnectAttempts, reconnects, tr,
      backoffDisconnect, effects, observed, failures, thrown, sendVars, clientVars, call, ops,
      upload>>

\* The user constructs a manager from config.
Construct(config) ==
    /\ given' = config
    /\ made' = constructor(config)
    /\ UNCHANGED pureRest

NextConstruct == \E config \in Configs : Construct(config)

SpecConstruct == Init /\ [][NextConstruct]_vars

\* The config has every required field set and not empty.
Valid(config) ==
    \A o \in {config.service, config.domain, config.username, config.password} :
        o # <<>> /\ o[1] # ""

\* C27 as stated: the new manager of a valid config is disconnected without a
\* transport, and its stored config is the given one with the timeout 10000 when it
\* was not set and as given otherwise.
C27_TimeoutKeptWhenGiven ==
    (made.state # "none" /\ Valid(given)) =>
        /\ made.state = "constructed"
        /\ made.status = "disconnected"
        /\ made.xmpp = NoTransport
        /\ made.config = [given EXCEPT !.timeout = IF @ = <<>> THEN <<10000>> ELSE @]

\* C27, amended: the new manager of a valid config is disconnected without a
\* transport, and its stored config is the given one with the timeout 10000 when it
\* was not set or 0 and as given otherwise.
C27_TimeoutDefaulted ==
    (made.state # "none" /\ Valid(given)) =>
        /\ made.state = "constructed"
        /\ made.status = "disconnected"
        /\ made.xmpp = NoTransport
        /\ made.config = [given EXCEPT !.timeout = IF @ \in {<<>>, <<0>>} THEN <<10000>>
                                                   ELSE @]

\* A manager was constructed from a valid config without a timeout.
C27_Witness ==
    /\ made.state = "constructed"
    /\ Valid(given)
    /\ given.timeout = <<>>
    /\ made.config.timeout = <<10000>>

\* C28: the constructor called with a config in which a required field is not set or
\* empty threw 'Invalid configuration: missing required fields': there is no manager,
\* hence no transport and no event.
C28_InvalidConfigThrows ==
    (made.state # "none" /\ ~Valid(given)) =>
        made = [state |-> "threw",
                message |-> "Invalid configuration: missing required fields"]

\* The constructor threw for a config whose password alone is empty.
C28_Witness ==
    /\ made.state = "threw"
    /\ given.password = <<"">>
    /\ given.service = <<"ws://host">>
    /\ given.domain = <<"host">>
    /\ given.username = <<"alice">>

\* The default of maxFileSize: 10 MB.
DefaultMaxFileSize == 10485760

\* The keys of SUPPORTED_MIME_TYPES, in the order of the table.
SUPPORTED_MIME_TYPES ==
    <<"image/jpeg", "image/png", "image/gif", "image/webp", "application/pdf",
      "application/msword",
      "application/vnd.openxmlformats-officedocument.wordprocessingml.document",
      "application/vnd.ms-excel",
      "application/vnd.openxmlformats-officedocument.spreadsheetml.sheet",
      "text/plain", "text/markdown", "application/zip", "application/x-rar-compressed",
      "application/x-7z-compressed">>

(***************************************************************************)
(* MessageManager.createChatMessage.  An element is its name, its          *)
(* attributes as a set of <<name, value>> pairs and its children in order; *)
(* an option is <<>> when it is not given and <<v>> when it is given as v. *)
(***************************************************************************)

Element(name, attrs, children) == [name |-> name, attrs |-> attrs, children |-> children]

\* The ids uuidv4() returns.
Uuids == {"uuid-1", "uuid-2"}

\* The dates given as options.delay: year, month, day at midnight UTC.
Dates == {<<2024, 1, 1>>, <<1999, 12, 31>>}

Threads == [id : {"thread-1"}, parent : {<<>>, <<"">>, <<"parent-1">>}]

\* The options createChatMessage is called with.
MessageOptions ==
    [id : {<<>>, <<"">>, <<"id-1">>},
     thread : {<<>>} \cup {<<t>> : t \in Threads},
     priority : {<<>>, <<"high">>},
     delay : {<<>>} \cup {<<d>> : d \in Dates},
     replacesId : {<<>>, <<"">>, <<"original-msg-id">>}]

\* A number in two digits.
pad2(n) == IF n < 10 THEN "0" \o ToString(n) ELSE ToString(n)

\* Date.prototype.toISOString of a date at midnight UTC.
toISOString(d) ==
    ToString(d[1]) \o "-" \o pad2(d[2]) \o "-" \o pad2(d[3]) \o "T00:00:00.000Z"

\* Whether an optional string is truthy.
truthyString(o) == o # <<>> /\ o[1] # ""

threadElement(thread) ==
    Element("thread",
            IF truthyString(thread.parent) THEN {<<"parent", thread.parent[1]>>} ELSE {},
            <<thread.id>>)

\* Mutant: the id is always generated.
createBasicMessageOwnId(to, type, options, uuid) ==
    Element("message",
            {<<"to", to>>, <<"type", type>>, <<"id", uuid>>}
                \cup (IF options.priority # <<>>
                      THEN {<<"priority", options.priority[1]>>} ELSE {}),
            (IF options.thread # <<>> THEN <<threadElement(options.thread[1])>>
             ELSE <<>>)
                \o (IF options.delay # <<>>
                    THEN <<Element("delay", {<<"xmlns", "urn:xmpp:delay">>,
                                             <<"stamp", toISOString(options.delay[1])>>},
                                   <<>>)>>
                    ELSE <<>>)
                \o (IF truthyString(options.replacesId)
                    THEN <<Element("replace", {<<"xmlns", "urn:xmpp:message-correct:0">>,
                                               <<"id", options.replacesId[1]>>}, <<>>)>>
                    ELSE <<>>))

\* MessageManager.createBasicMessage, with uuid what uuidv4() returns when called.
createBasicMessage(to, type, options, uuid) ==
    Element("message",
            {<<"to", to>>, <<"type", type>>,
             <<"id", IF truthyString(options.id) THEN options.id[1] ELSE uuid>>}
                \cup (IF options.priority # <<>>
                      THEN {<<"priority", options.priority[1]>>} ELSE {}),
            (IF options.thread # <<>> THEN <<threadElement(options.thread[1])>>
             ELSE <<>>)
                \o (IF options.delay # <<>>
                    THEN <<Element("delay", {<<"xmlns", "urn:xmpp:delay">>,
                                             <<"stamp", toISOString(options.delay[1])>>},
                                   <<>>)>>
                    ELSE <<>>)
                \o (IF truthyString(options.replacesId)
                    THEN <<Element("replace", {<<"xmlns", "urn:xmpp:message-correct:0">>,
                                               <<"id", options.replacesId[1]>>}, <<>>)>>
                    ELSE <<>>))

\* MessageManager.createChatMessage.
createChatMessage(to, body, options, uuid) ==
    LET message == createBasicMessage(to, "chat", options, uuid)
    IN  [message EXCEPT !.children = Append(@, Element("body", {}, <<body>>))]

\* The user builds a chat message.
Compose(to, body, options, uuid) ==
    /\ given' = [to |-> to, body |-> body, options |-> options]
    /\ made' = [state |-> "built", element |-> createChatMessage(to, body, options, uuid)]
    /\ UNCHANGED pureRest

NextCompose ==
    \E to \in {"bob@example.com", ""}, body \in {"Hello", ""},
       options \in MessageOptions, uuid \in Uuids : Compose(to, body, options, uuid)

SpecCompose == Init /\ [][NextCompose]_vars

\* The values of the attribute n of the element e.
Attr(e, n) == {p[2] : p \in {q \in e.attrs : q[1] = n}}

\* The children of the element e named n.
Children(e, n) == {k \in DOMAIN e.children : e.children[k].name = n}

\* C30 as stated: the frame is a `message` to the given address of type chat, with the
\* id of the options when one is given and a generated id otherwise, with one body
\* child holding the given text, and with a thread, delay and replace child exactly
\* when that option is given.
C30_ChatMessageAsGiven ==
    (made.state = "built") =>
        LET m == made.element
            o == given.options
        IN  /\ m.name = "message"
            /\ Attr(m, "to") = {given.to}
            /\ Attr(m, "type") = {"chat"}
            /\ IF o.id # <<>> THEN Attr(m, "id") = {o.id[1]}
               ELSE Attr(m, "id") \subseteq Uuids /\ Cardinality(Attr(m, "id")) = 1
            /\ \E k \in DOMAIN m.children :
                   Children(m, "body") = {k} /\ m.children[k].children = <<given.body>>
            /\ (Children(m, "thread") # {}) <=> (o.thread # <<>>)
            /\ (Children(m, "delay") # {}) <=> (o.delay # <<>>)
            /\ (Children(m, "replace") # {}) <=> (o.replacesId # <<>>)

\* C30, amended: as above, with the id of the options when it is given and not empty,
\* and a replace child exactly when replacesId is given and not empty.
C30_ChatMessageFromOptions ==
    (made.state = "built") =>
        LET m == made.element
            o == given.options
        IN  /\ m.name = "message"
            /\ Attr(m, "to") = {given.to}
            /\ Attr(m, "type") = {"chat"}
            /\ IF o.id \notin {<<>>, <<"">>} THEN Attr(m, "id") = {o.id[1]}
               ELSE Attr(m, "id") \subseteq Uuids /\ Cardinality(Attr(m, "id")) = 1
            /\ \E k \in DOMAIN m.children :
                   Children(m, "body") = {k} /\ m.children[k].children = <<given.body>>
            /\ (Children(m, "thread") # {}) <=> (o.thread # <<>>)
            /\ (Children(m, "delay") # {}) <=> (o.delay # <<>>)
            /\ (Children(m, "replace") # {}) <=> (o.replacesId \notin {<<>>, <<"">>})

\* A message was built with an id, a thread, a delay and a replaced id given.
C30_Witness ==
    /\ made.state = "built"
    /\ given.options.id = <<"id-1">>
    /\ given.options.thread # <<>>
    /\ given.options.delay = <<<<2024, 1, 1>>>>
    /\ given.options.replacesId = <<"original-msg-id">>
    /\ Attr(made.element, "id") = {"id-1"}
    /\ Len(made.element.children) = 4
    /\ made.element.children[2].attrs = {<<"xmlns", "urn:xmpp:delay">>,
                                         <<"stamp", "2024-01-01T00:00:00.000Z">>}

(***************************************************************************)
(* FileQueryBuilder.createUploadSlotRequest.                               *)
(***************************************************************************)

RECURSIVE trimStart(_)
trimStart(text) ==
    IF Len(text) > 0 /\ SubSeq(text, 1, 1) = " " THEN trimStart(SubSeq(text, 2, Len(text)))
    ELSE text

RECURSIVE trimEnd(_)
trimEnd(text) ==
    IF Len(text) > 0 /\ SubSeq(text, Len(text), Len(text)) = " "
    THEN trimEnd(SubSeq(text, 1, Len(text) - 1))
    ELSE text

\* String.prototype.trim, for the blanks the inputs hold.
trim(text) == trimEnd(trimStart(text))

\* The options createUploadSlotRequest is called with; the filename and the domain
\* are <<>> when they are not set.
SlotOptions ==
    [filename : {<<>>, <<"">>, <<"  ">>, <<"a.pdf">>, <<" a.pdf ">>},
     size : {0, -1, 1024},
     domain : {<<>>, <<"">>, <<" ">>, <<"example.com">>, <<" example.com">>},
     contentType : {"application/pdf", "image/jpeg", "application/x-sh", ""}]

\* !text?.trim() of an optional string.
blank(o) == o = <<>> \/ trim(o[1]) = ""

\* Mutant: the content type is not validated.
validateOptionsAnyType(options) ==
    IF blank(options.filename) THEN Thrown("Filename must not be empty")
    ELSE IF options.size = 0 \/ options.size <= 0
    THEN Thrown("File size must be a positive number")
    ELSE IF blank(options.domain) THEN Thrown("Domain must not be empty")
    ELSE [state |-> "returned"]

\* FileQueryBuilder.validateOptions: what it throws, or that it returns.
validateOptions(options) ==
    IF blank(options.filename) THEN Thrown("Filename must not be empty")
    ELSE IF options.size = 0 \/ options.size <= 0
    THEN Thrown("File size must be a positive number")
    ELSE IF blank(options.domain) THEN Thrown("Domain must not be empty")
    ELSE IF \A k \in DOMAIN SUPPORTED_MIME_TYPES :
                SUPPORTED_MIME_TYPES[k] # options.contentType
    THEN Thrown("Unsupported content type")
    ELSE [state |-> "returned"]

createRequestElement(options) ==
    Element("request",
            {<<"xmlns", "urn:xmpp:http:upload:0">>,
             <<"filename", trim(options.filename[1])>>,
             <<"size", ToString(options.size)>>,
             <<"content-type", options.contentType>>},
            <<>>)

createIQStanza(domain, uuid) ==
    Element("iq", {<<"type", "get">>, <<"id", uuid>>, <<"to", "upload." \o trim(domain)>>},
            <<>>)

\* FileQueryBuilder.createUploadSlotRequest, with uuid what uuidv4() returns.
createUploadSlotRequest(options, uuid) ==
    LET v == validateOptions(options)
    IN  IF v.state = "threw" THEN v
        ELSE [state |-> "built",
              element |-> [createIQStanza(options.domain[1], uuid) EXCEPT
                               !.children = <<createRequestElement(options)>>]]

\* The user builds an upload-slot request.
BuildSlotRequest(options, uuid) ==
    /\ given' = options
    /\ made' = createUploadSlotRequest(options, uuid)
    /\ UNCHANGED pureRest

NextSlot == \E options \in SlotOptions, uuid \in Uuids : BuildSlotRequest(options, uuid)

SpecSlot == Init /\ [][NextSlot]_vars

\* The options the claim calls valid.
ValidSlotOptions(o) ==
    /\ o.filename \notin {<<>>, <<"">>, <<"  ">>}
    /\ o.size > 0
    /\ o.domain \notin {<<>>, <<"">>, <<" ">>}
    /\ o.contentType \in {SUPPORTED_MIME_TYPES[k] : k \in DOMAIN SUPPORTED_MIME_TYPES}

\* C31 as stated: for valid options the frame is an iq of type get to upload.<domain>
\* with one request child whose filename, size (in decimal) and content-type are those
\* of the options; for invalid options the builder throws and builds nothing.
C31_SlotRequestEqualsOptions ==
    (made.state # "none") =>
        IF ValidSlotOptions(given)
        THEN /\ made.state = "built"
             /\ made.element.name = "iq"
             /\ Attr(made.element, "type") = {"get"}
             /\ Attr(made.element, "to") = {"upload." \o given.domain[1]}
             /\ Len(made.element.children) = 1
             /\ made.element.children[1].name = "request"
             /\ Attr(made.element.children[1], "filename") = {given.filename[1]}
             /\ Attr(made.element.children[1], "size") = {ToString(given.size)}
             /\ Attr(made.element.children[1], "content-type") = {given.contentType}
        ELSE made.state = "threw"

\* The filename and the domain without the blanks around them, written out for the
\* inputs of SlotOptions.
Unpadded(text) ==
    CASE text = " a.pdf " -> "a.pdf"
      [] text = " example.com" -> "example.com"
      [] OTHER -> text

\* C31, amended: as above, with the filename attribute and the domain in `to` being
\* those of the options without the blanks around them.
C31_SlotRequestFromTrimmedOptions ==
    (made.state # "none") =>
        IF ValidSlotOptions(given)
        THEN /\ made.state = "built"
             /\ made.element.name = "iq"
             /\ Attr(made.element, "type") = {"get"}
             /\ Attr(made.element, "to") = {"upload." \o Unpadded(given.domain[1])}
             /\ Len(made.element.children) = 1
             /\ made.element.children[1].name = "request"
             /\ Attr(made.element.children[1], "filename") = {Unpadded(given.filename[1])}
             /\ Attr(made.element.children[1], "size") = {ToString(given.size)}
             /\ Attr(made.element.children[1], "content-type") = {given.contentType}
        ELSE made.state = "threw" /\ made.message # ""

\* The request of the spec's example was built.
C31_Witness ==
    /\ made.state = "built"
    /\ given = [filename |-> <<"a.pdf">>, size |-> 1024, domain |-> <<"example.com">>,
                contentType |-> "application/pdf"]
    /\ Attr(made.element, "to") = {"upload.example.com"}
    /\ Attr(made.element.children[1], "size") = {"1024"}

(***************************************************************************)
(* sendAttachment: AttachmentManager.uploadFile, then the attachment       *)
(* message.  A step is the call up to its first await or the continuation  *)
(* of one await.                                                           *)
(***************************************************************************)

\* The upload configs given to the AttachmentManager: a field is <<>> when not set.
UploadConfigs ==
    [maxFileSize : {<<>>, <<0>>, <<2048>>},
     allowedMimeTypes : {<<>>, <<<<"image/png", "image/gif">>>>}]

\* The files the user attaches.
Files ==
    [name : {"a.pdf"}, size : {0, 1024, 2048, 2049, 10485761},
     type : {"application/pdf", "image/png", "application/x-sh"}]

\* The answers to the slot request: with a slot, and without a usable one.
SlotResponses == {"slot", "no-slot", "no-put"}

\* The constructor of AttachmentManager: the defaults, overridden by the config.
uploadConfig(config) ==
    [maxFileSize |-> IF config.maxFileSize = <<>> THEN DefaultMaxFileSize
                     ELSE config.maxFileSize[1],
     allowedMimeTypes |-> IF config.allowedMimeTypes = <<>> THEN SUPPORTED_MIME_TYPES
                          ELSE config.allowedMimeTypes[1]]

RECURSIVE join(_, _)
\* Array.prototype.join.
join(list, sep) ==
    IF list = <<>> THEN ""
    ELSE IF Len(list) = 1 THEN list[1]
    ELSE list[1] \o sep \o join(Tail(list), sep)

FileError(message, code) == [name |-> "FileError", code |-> code, message |-> message]

PlainError(message) == [name |-> "Error", code |-> "", message |-> message]

NoFailure == [name |-> "", code |-> "", message |-> ""]

\* AttachmentManager.validateFile: what it throws, NoFailure when it returns.
validateFile(cfg, file) ==
    IF cfg.maxFileSize # 0 /\ file.size > cfg.maxFileSize
    THEN FileError("File size (" \o ToString(file.size)
                       \o " bytes) exceeds maximum allowed size ("
                       \o ToString(cfg.maxFileSize) \o " bytes)", "SIZE_EXCEEDED")
    ELSE IF \A k \in DOMAIN cfg.allowedMimeTypes : cfg.allowedMimeTypes[k] # file.type
    THEN FileError("File type " \o file.type \o " is not allowed. Allowed types: "
                       \o join(cfg.allowedMimeTypes, ", "), "INVALID_TYPE")
    ELSE NoFailure

\* The catch of uploadFile.
uploadFileCatch(error) ==
    IF error.name = "FileError" THEN error
    ELSE FileError("File upload failed: " \o error.message, "UPLOAD_FAILED")

\* The error createUploadSlotRequest throws.
FileUploadError(message) == [name |-> "FileUploadError", code |-> "", message |-> message]

\* requestUploadSlot: the request createUploadSlotRequest builds for the file and the
\* domain of the connection's config, or what it throws; uuid is what uuidv4() returns.
slotRequest(file, uuid) ==
    createUploadSlotRequest([filename |-> <<file.name>>, size |-> file.size,
                             domain |-> <<"host">>, contentType |-> file.type],
                            uuid)

\* createAttachmentMessage: the body is the file's name when none is given.
createAttachmentMessage(to, body, file) ==
    [name |-> "file", type |-> "chat", to |-> to,
     id |-> IF body = "" THEN file.name ELSE body]

\* The call ends with the error thrown to the caller of sendAttachment.
uploadRejected(u, cause, error) ==
    [u EXCEPT !.stage = "end", !.state = "rejected", !.cause = cause, !.error = error]

\* No await of the call is outstanding.
UploadIdle == upload.stage \in {"none", "end", "stuck"}

UploadBecomes(u) ==
    /\ upload' = u
    /\ events' = <<>>
    /\ UNCHANGED <<status, xmpp, call, ops, given, made>>
    /\ UNCHANGED <<connectionTimeout, reconnectAttempts, reconnects, tr,
                   backoffDisconnect, effects, observed, failures, thrown, sendVars,
                   messageCollections, stale, parsed, pendingResults, pendingMessages,
                   handled, frame, raised, arrived, constructorConnect>>

\* The user calls sendAttachment(to, body, file) on a client with the upload config:
\* the file is validated, the slot request built (a throw of the builder inside the
\* promise of requestUploadSlot rejects it) and handed to sendIQ.
UserSendAttachment(config, file, body, uuid) ==
    /\ UploadIdle
    /\ LET cfg == uploadConfig(config)
           u == [state |-> "pending", stage |-> "slot", config |-> cfg, file |-> file,
                 body |-> body, wire |-> <<>>, puts |-> 0, cause |-> "none",
                 error |-> NoFailure]
           invalid == validateFile(cfg, file)
           iq == slotRequest(file, uuid)
       IN  UploadBecomes(
               IF invalid # NoFailure
               THEN uploadRejected(u, "validation", uploadFileCatch(invalid))
               ELSE IF iq.state = "threw"
               THEN uploadRejected(u, "slot",
                        uploadFileCatch(FileUploadError(iq.message)))
               ELSE IF ~sendAllowed(Mgr)
               THEN uploadRejected(u, "slot",
                        uploadFileCatch(PlainError("Not connected to server")))
               ELSE [u EXCEPT !.wire = <<iq.element>>])

\* The slot request is answered: with a slot the file is read; without a usable one
\* neither resolve nor reject is called.
SlotResponds(resp) ==
    /\ upload.state = "pending"
    /\ upload.stage = "slot"
    /\ UploadBecomes(IF resp = "slot" THEN [upload EXCEPT !.stage = "buffer"]
                     ELSE [upload EXCEPT !.stage = "stuck", !.cause = "slot"])

\* The slot request fails with err.
SlotRejects(err) ==
    /\ upload.state = "pending"
    /\ upload.stage = "slot"
    /\ UploadBecomes(uploadRejected(upload, "slot",
                         uploadFileCatch(PlainError(sendIQError(err).message))))

\* file.arrayBuffer() resolves: the file is put to the slot's URL.
BufferRead ==
    /\ upload.state = "pending"
    /\ upload.stage = "buffer"
    /\ UploadBecomes([upload EXCEPT !.stage = "put", !.puts = @ + 1])

\* file.arrayBuffer() rejects: getFileBuffer has no handler for it.
BufferFails ==
    /\ upload.state = "pending"
    /\ upload.stage = "buffer"
    /\ UploadBecomes([upload EXCEPT !.stage = "stuck", !.cause = "buffer"])

\* axios.put resolves: uploadFile returns the slot, the message is built and handed to
\* sendStanza.
PutResolves ==
    /\ upload.state = "pending"
    /\ upload.stage = "put"
    /\ UploadBecomes(
           IF sendAllowed(Mgr)
           THEN [upload EXCEPT !.stage = "send",
                               !.wire = Append(@, createAttachmentMessage(
                                                      "bob", upload.body, upload.file))]
           ELSE uploadRejected(upload, "send", PlainError("Not connected to server")))

\* axios.put rejects with err.
PutRejects(err) ==
    /\ upload.state = "pending"
    /\ upload.stage = "put"
    /\ UploadBecomes(uploadRejected(upload, "put",
                         uploadFileCatch(FileError("File upload failed: " \o err.message,
                                                   "UPLOAD_FAILED"))))

\* The transport has sent the message.
AttachmentSent ==
    /\ upload.state = "pending"
    /\ upload.stage = "send"
    /\ UploadBecomes([upload EXCEPT !.stage = "end", !.state = "resolved"])

\* The transport fails to send the message.
AttachmentSendFails(err) ==
    /\ upload.state = "pending"
    /\ upload.stage = "send"
    /\ UploadBecomes(uploadRejected(upload, "send", PlainError(err.message)))

NextAttach ==
    \/ LinkMoves
    \/ \E config \in UploadConfigs, file \in Files, body \in {"", "see"}, uuid \in Uuids :
           UserSendAttachment(config, file, body, uuid)
    \/ \E resp \in SlotResponses : SlotResponds(resp)
    \/ \E err \in ServerErrors \cup TransportErrors : SlotRejects(err)
    \/ BufferRead
    \/ BufferFails
    \/ PutResolves
    \/ \E err \in TransportErrors : PutRejects(err)
    \/ AttachmentSent
    \/ \E err \in TransportErrors : AttachmentSendFails(err)

SpecAttach == Init /\ [][NextAttach]_vars

\* The message of the call has been handed to the transport.
MessageHandedOver == Len(upload.wire) = 2

\* C29: the attachment message is handed to the transport only after the file was
\* validated, the slot requested and the file put to the slot, in that order; a file
\* that is too large or of a type not allowed is rejected with a FileError and no slot
\* request; whatever else goes wrong is reported as a FileError 'File upload failed';
\* and after a failure no message has been handed over.
C29_AttachmentAfterUpload ==
    (upload.state # "none") =>
        /\ MessageHandedOver =>
               /\ validateFile(upload.config, upload.file) = NoFailure
               /\ \E uuid \in Uuids :
                      /\ slotRequest(upload.file, uuid).state = "built"
                      /\ upload.wire[1] = slotRequest(upload.file, uuid).element
               /\ upload.wire[2].name = "file"
               /\ upload.puts = 1
        /\ (upload.puts > 0) => (upload.wire # <<>>)
        /\ (validateFile(upload.config, upload.file) # NoFailure) =>
               /\ upload.state = "rejected"
               /\ upload.error.name = "FileError"
               /\ upload.error.code \in {"SIZE_EXCEEDED", "INVALID_TYPE"}
               /\ upload.wire = <<>>
        /\ (upload.cause \notin {"none", "validation"}) =>
               /\ upload.state = "rejected"
               /\ upload.error.name = "FileError"
               /\ upload.error.code = "UPLOAD_FAILED"
               /\ SubSeq(upload.error.message, 1, 18) = "File upload failed"
        /\ (upload.cause \in {"validation", "slot", "buffer", "put"}) =>
               ~MessageHandedOver
        /\ (upload.cause # "none") => (upload.state # "resolved")

(***************************************************************************)
(* C32..C35, C39: the connection lifecycle, continued.                     *)
(***************************************************************************)

\* C32: in every reachable state an armed connect timeout implies that the state is
\* `connecting`.
C32_TimeoutArmedOnlyWhileConnecting ==
    (connectionTimeout = "armed") => (status = "connecting")

\* C33: a step in which the transport signals offline while the state is `online`
\* (the manager emits the status event of `disconnected` and then `offline`) ends
\* in `disconnected` with the handle cleared and no listener left on any transport.
C33_OfflineReleasesTransport ==
    [][(status = "online" /\ effects' = <<"status:disconnected", "offline">>) =>
           (status' = "disconnected" /\ xmpp' = NoTransport
                /\ \A t \in Transports : ~tr'[t].listeners)]_vars

\* C34: a transport that a new one has replaced is torn down: a step in which it
\* signals (online, offline, error) changes neither the state nor the attempt
\* counter and emits nothing.
C34_SupersededTransportIsSilent ==
    [][\A t \in Transports :
          (/\ xmpp # NoTransport
           /\ t # xmpp
           /\ TransportOnline(t) \/ TransportOffline(t) \/ TransportError(t)) =>
              (status' = status /\ reconnectAttempts' = reconnectAttempts
                   /\ effects' = <<>>)]_vars

\* C35: events are emitted in a fixed order at the transition.  On a failure the
\* timer is cleared before the status event of `error`, which is followed at once by
\* the `error` event, and a reconnect is scheduled only after both; on the online
\* path the timer is cleared and the attempt counter reset before the status event
\* of `online`, which is followed at once by the `online` event.
C35_EventsInFixedOrder ==
    \A i \in 1..Len(observed) :
        LET o == observed[i]
            before == IF i > 1 THEN observed[i - 1].event ELSE "none"
            after == IF i < Len(observed) THEN observed[i + 1].event ELSE "none"
        IN  /\ (o.event = "status:error") => (o.timeout = "none" /\ after \in ErrorEffects)
            /\ (o.event \in ErrorEffects) => (before = "status:error")
            /\ (o.event \in BackoffEffects) => (before \in ErrorEffects)
            /\ (o.event = "status:online") =>
                   (o.timeout = "none" /\ o.attempts = 0 /\ after = "online")
            /\ (o.event = "online") => (before = "status:online")

\* C35 witness: a connect timeout has just been handled, with its three effects.
C35_Witness ==
    /\ Len(observed) = 3
    /\ observed[1].event = "status:error"
    /\ observed[2].event = "error:TIMEOUT"
    /\ observed[3].event \in BackoffEffects
    /\ status = "error"

\* C39: whenever the state is `online` the manager holds a transport handle, so that
\* isConnected() is true exactly when the state is `online`.
C39_OnlineHasTransport == (status = "online") => (xmpp # NoTransport)

(***************************************************************************)
(* C36..C38, C40: the archive handler and the dispatcher, continued.       *)
(***************************************************************************)

\* C36: when the items of two archive queries interleave, the collection of each
\* query id holds exactly the items delivered for it, in the order of delivery; the
\* terminal of a query id returns them, and leaves those of the other query id as
\* they were.
C36_InterleavedQueriesKeptApart ==
    [][/\ \A q \in QueryIds : messageCollections'[q] = arrived'[q]
       /\ (IsTerminal(frame') /\ frame'.id \in QueryIds) =>
              /\ ~parsed'.null
              /\ parsed'.queryId = frame'.id
              /\ parsed'.messages = arrived[frame'.id]
              /\ \A q \in QueryIds \ {frame'.id} : messageCollections'[q] = arrived[q]]_vars

\* C36 witness: an item of each query has arrived, that of qb first, and the terminal
\* of qa has returned its own while that of qb still waits.
C36_Witness ==
    /\ IsTerminal(frame)
    /\ frame.id = "qa"
    /\ parsed.queryId = "qa"
    /\ parsed.messages = <<"m1">>
    /\ messageCollections["qb"] = <<"m1">>
    /\ messageCollections["qa"] = <<>>

\* A message without an archive marker and without a receipt marker.
IsPlainMessage(f) == f.name = "message" /\ f.mam = "none" /\ f.receipt = "none"

\* C37: every message stanza without an archive or receipt marker produces exactly
\* one message event, whatever the connection state and the outcome of the status
\* lookup made for it: the step that delivers it either emits the event or leaves
\* the message pending, and a pending message leaves only with its event.
C37_PlainMessageAlwaysEmitted ==
    [][/\ IsPlainMessage(frame') =>
              \/ Cardinality(EventsOf("message", events')) = 1
              \/ Len(pendingMessages') = Len(pendingMessages) + 1
       /\ Len(pendingMessages') < Len(pendingMessages) =>
              Cardinality(EventsOf("message", events')) = 1]_vars

\* C38: the receipt test of the listener agrees with parseReceipt: every message
\* stanza the listener takes for a receipt (it has a received or displayed child
\* and no archive marker) produces exactly one receipt event.
C38_ClassifiedReceiptIsEmitted ==
    [][(frame' # NoFrame /\ handled' = "receipt") =>
           /\ Cardinality(EventsOf("receipt", events')) = 1
           /\ Len(events') = 1]_vars

\* C40: delivering a stanza of any kind hands nothing to the transport: the step
\* changes the collections and emits events only, and starts no status lookup, each
\* of which is a get-status query given to sendIQ.
C40_DispatchSendsNothing ==
    [][(frame' # NoFrame) =>
           /\ Len(pendingMessages') = Len(pendingMessages)
           /\ Len(pendingResults') = Len(pendingResults)]_vars

====
